---- MODULE Spec2Model ----
(***************************************************************************)
(* A model of the static site generator of src/ssg.js: the slug assigner   *)
(* (slugify), and the template renderer (renderTemplate, getNestedValue).  *)
(*                                                                         *)
(* Text is a sequence of characters; a character is a one-token string.    *)
(* Characters outside ASCII carry a name: "e+acute" is U+00E9, "E+acute"   *)
(* is U+00C9, "acute" is the combining mark U+0301 and "ScriptH" is U+210B *)
(* (SCRIPT CAPITAL H), which has no lowercase mapping and whose            *)
(* compatibility decomposition is the letter H.                            *)
(***************************************************************************)
EXTENDS Integers, Sequences, FiniteSets, TLC

VARIABLES registry,   \* existingSlugs, the Set the caller passes to slugify
          initial,    \* the content of the registry before the first call
          before,     \* the content of the registry when the last call began
          inputs,     \* the labels passed so far, in call order
          returned,   \* the strings returned so far, in call order
          template,   \* the template text given to renderTemplate
          data,       \* the context given to renderTemplate
          output,     \* the text renderTemplate returned
          rendered,   \* whether renderTemplate has returned
          pieces,     \* the three texts <<A, E, B>> the template is put together from
          history,    \* the calls of renderTemplate on the context, in order
          config,     \* config.json and the templates the theme holds
          sources,    \* what fetchData gives for each URL of config.data
          pc,         \* the part of the run that is to execute next
          cursor,     \* the passes the loop of that part has made
          allItems,   \* allItems of generateSite
          written,    \* the calls of generateHTML that wrote a file, in order
          reported    \* the paths console.error named, in order

slugVars == <<registry, initial, before, inputs, returned>>

renderVars == <<template, data, output, rendered, pieces, history>>

siteVars == <<config, sources, pc, cursor, allItems, written, reported>>

vars ==
  <<registry, initial, before, inputs, returned, template, data, output, rendered, pieces,
    history, config, sources, pc, cursor, allItems, written, reported>>

\* no run of the generator is under way
IdleSite ==
  /\ config = [program |-> "none"]
  /\ sources = <<>>
  /\ pc = "idle"
  /\ cursor = 0
  /\ allItems = <<>>
  /\ written = <<>>
  /\ reported = <<>>

\* no call of slugify and no call of renderTemplate has been made
IdleSlug ==
  /\ registry = {}
  /\ initial = {}
  /\ before = {}
  /\ inputs = <<>>
  /\ returned = <<>>

IdleRender ==
  /\ template = <<>>
  /\ data = [t |-> "object", o |-> <<>>]
  /\ output = <<>>
  /\ rendered = FALSE
  /\ pieces = <<<<>>, <<>>, <<>>>>
  /\ history = <<>>

---------------------------------------------------------------------------
(* Generic helpers on text.                                                *)

\* String.prototype.substring(0, n)
Substring(s, n) ==
  IF n <= 0 THEN <<>> ELSE IF n >= Len(s) THEN s ELSE SubSeq(s, 1, n)

\* String.prototype.endsWith('-')
EndsWithHyphen(s) == Len(s) > 0 /\ s[Len(s)] = "-"

\* n copies of the character c
RECURSIVE Rep(_, _)
Rep(c, n) == IF n <= 0 THEN <<>> ELSE <<c>> \o Rep(c, n - 1)

\* the decimal digits of a non-negative integer, as in `${counter}`
RECURSIVE Digits(_)
Digits(n) ==
  LET d == <<"0", "1", "2", "3", "4", "5", "6", "7", "8", "9">>
  IN  IF n < 10 THEN <<d[n + 1]>> ELSE Digits(n \div 10) \o <<d[(n % 10) + 1]>>

---------------------------------------------------------------------------
(* slugify, src/ssg.js:146-198                                             *)

LowerAlphabet ==
  <<"a", "b", "c", "d", "e", "f", "g", "h", "i", "j", "k", "l", "m",
    "n", "o", "p", "q", "r", "s", "t", "u", "v", "w", "x", "y", "z">>
UpperAlphabet ==
  <<"A", "B", "C", "D", "E", "F", "G", "H", "I", "J", "K", "L", "M",
    "N", "O", "P", "Q", "R", "S", "T", "U", "V", "W", "X", "Y", "Z">>
LowerLetters == {LowerAlphabet[i] : i \in DOMAIN LowerAlphabet}
UpperLetters == {UpperAlphabet[i] : i \in DOMAIN UpperAlphabet}
DigitChars == {"0", "1", "2", "3", "4", "5", "6", "7", "8", "9"}
SpaceChars == {" ", "TAB"}

\* \w of a JavaScript regular expression without the u flag: [A-Za-z0-9_]
IsWordChar(c) == c \in LowerLetters \cup UpperLetters \cup DigitChars \cup {"_"}

\* String.prototype.toLowerCase, one character
LowerChar(c) ==
  IF c \in UpperLetters
  THEN LowerAlphabet[CHOOSE i \in DOMAIN UpperAlphabet : UpperAlphabet[i] = c]
  ELSE IF c = "E+acute" THEN "e+acute" ELSE c

RECURSIVE ToLowerCase(_)
ToLowerCase(s) ==
  IF s = <<>> THEN <<>> ELSE <<LowerChar(Head(s))>> \o ToLowerCase(Tail(s))

\* String.prototype.normalize('NFKD'), one character
DecomposeChar(c) ==
  CASE c = "e+acute" -> <<"e", "acute">>
    [] c = "E+acute" -> <<"E", "acute">>
    [] c = "ScriptH" -> <<"H">>
    [] OTHER -> <<c>>

RECURSIVE NormalizeNFKD(_)
NormalizeNFKD(s) ==
  IF s = <<>> THEN <<>> ELSE DecomposeChar(Head(s)) \o NormalizeNFKD(Tail(s))

\* .replace(/\s+/g, '-')
RECURSIVE SpacesToHyphen(_)
SpacesToHyphen(s) ==
  IF s = <<>> THEN <<>>
  ELSE IF Head(s) \in SpaceChars
       THEN IF Len(s) > 1 /\ s[2] \in SpaceChars
            THEN SpacesToHyphen(Tail(s))
            ELSE <<"-">> \o SpacesToHyphen(Tail(s))
       ELSE <<Head(s)>> \o SpacesToHyphen(Tail(s))

\* .replace(/[^\w\-]+/g, '')
StripNonWord(s) == SelectSeq(s, LAMBDA c : IsWordChar(c) \/ c = "-")

\* .replace(/[\*]+/g, '')
StripAsterisks(s) == SelectSeq(s, LAMBDA c : c # "*")

\* .replace(/\-\-+/g, '-')
RECURSIVE CollapseHyphens(_)
CollapseHyphens(s) ==
  IF s = <<>> THEN <<>>
  ELSE IF Head(s) = "-" /\ Len(s) > 1 /\ s[2] = "-"
       THEN CollapseHyphens(Tail(s))
       ELSE <<Head(s)>> \o CollapseHyphens(Tail(s))

\* .replace(/^-+/, '')
RECURSIVE TrimStart(_)
TrimStart(s) ==
  IF s # <<>> /\ Head(s) = "-" THEN TrimStart(Tail(s)) ELSE s

\* .replace(/-+$/, '')
RECURSIVE TrimEnd(_)
TrimEnd(s) ==
  IF EndsWithHyphen(s) THEN TrimEnd(SubSeq(s, 1, Len(s) - 1)) ELSE s

\* the chain of replacements of lines 148-156
Cleanup(input) ==
  TrimEnd(TrimStart(CollapseHyphens(StripAsterisks(StripNonWord(
    SpacesToHyphen(NormalizeNFKD(ToLowerCase(input))))))))

MinSlugLen == 2
MaxSlugLen == 30

\* if (!slug) slug = 'untitled'
Fallback(s) == IF s = <<>> THEN <<"u", "n", "t", "i", "t", "l", "e", "d">> ELSE s

\* PadMin with padStart in place of padEnd
PadMin_Start(s) == IF Len(s) < MinSlugLen THEN Rep("0", MinSlugLen - Len(s)) \o s ELSE s

\* slug.padEnd(2, '0') when slug.length < 2
PadMin(s) == IF Len(s) < MinSlugLen THEN s \o Rep("0", MinSlugLen - Len(s)) ELSE s

\* lines 167-173: cut to 30 characters, then drop a hyphen the cut left last
TruncateMax(s) ==
  IF Len(s) > MaxSlugLen
  THEN LET cut == Substring(s, MaxSlugLen)
       IN  IF EndsWithHyphen(cut) THEN Substring(cut, MaxSlugLen - 1) ELSE cut
  ELSE s

\* the value of `slug` at line 176
Candidate(input) == TruncateMax(PadMin(Fallback(Cleanup(input))))

\* Suffixed with the last digit of the counter only
Suffixed_LastDigit(slug, counter) ==
  LET suffix == <<"-">> \o Digits(counter % 10)
      base   == Substring(slug, MaxSlugLen - Len(suffix))
  IN  IF EndsWithHyphen(base)
      THEN Substring(base, Len(base) - 1) \o suffix
      ELSE base \o suffix

\* Suffixed with the base left uncut
Suffixed_Uncut(slug, counter) == slug \o <<"-">> \o Digits(counter)

\* the value given to finalSlug by one pass of the loop body, lines 182-189
Suffixed(slug, counter) ==
  LET suffix == <<"-">> \o Digits(counter)
      base   == Substring(slug, MaxSlugLen - Len(suffix))
  IN  IF EndsWithHyphen(base)
      THEN Substring(base, Len(base) - 1) \o suffix
      ELSE base \o suffix

\* UniqueLoop as an `if`: the suffixed string is not looked up again
UniqueLoop_Once(slug, finalSlug, counter, existingSlugs) ==
  IF finalSlug \in existingSlugs THEN Suffixed(slug, counter + 1) ELSE finalSlug

\* UniqueLoop with the counter advanced twice per pass
RECURSIVE UniqueLoop_Skip(_, _, _, _)
UniqueLoop_Skip(slug, finalSlug, counter, existingSlugs) ==
  IF finalSlug \in existingSlugs
  THEN UniqueLoop_Skip(slug, Suffixed(slug, counter + 2), counter + 2, existingSlugs)
  ELSE finalSlug

\* the while loop of lines 179-190, entered with finalSlug and counter
RECURSIVE UniqueLoop(_, _, _, _)
UniqueLoop(slug, finalSlug, counter, existingSlugs) ==
  IF finalSlug \in existingSlugs
  THEN UniqueLoop(slug, Suffixed(slug, counter + 1), counter + 1, existingSlugs)
  ELSE finalSlug

\* slugify(input, existingSlugs): the returned string
Slugify(input, existingSlugs) ==
  LET slug == Candidate(input) IN UniqueLoop(slug, slug, 1, existingSlugs)

---------------------------------------------------------------------------
(* Template text and context values, src/ssg.js:32-91                      *)
(*                                                                         *)
(* Template text is a sequence of tokens: a character other than a brace,  *)
(* or a whole expression {{...}}, which the regular expressions of         *)
(* renderTemplate match as a unit because [^}]+ cannot cross a brace. The  *)
(* text of a string value is such a sequence too, so that a value holding  *)
(* the characters of an expression is told from one that does not.         *)

Chr(c) == [k |-> "chr", p |-> <<c>>]
Var(path) == [k |-> "var", p |-> path]              \* {{a.b}}
EachOpen(path) == [k |-> "#each", p |-> path]       \* {{#each a.b}}
EachClose == [k |-> "/each", p |-> <<>>]            \* {{/each}}
IfOpen(path) == [k |-> "#if", p |-> path]           \* {{#if a.b}}
IfClose == [k |-> "/if", p |-> <<>>]                \* {{/if}}
UnlessOpen(path) == [k |-> "#unless", p |-> path]   \* {{#unless a.b}}
UnlessClose == [k |-> "/unless", p |-> <<>>]        \* {{/unless}}

\* the tokens of a text without braces
Text(s) == [i \in 1..Len(s) |-> Chr(s[i])]

\* JavaScript values; an object is the sequence of its <<key, value>>
\* entries in insertion order
Undefined == [t |-> "undefined"]
Null == [t |-> "null"]
Str(s) == [t |-> "string", s |-> s]
Num(n) == [t |-> "number", n |-> n]
Bool(b) == [t |-> "boolean", b |-> b]
Arr(a) == [t |-> "array", a |-> a]
Obj(o) == [t |-> "object", o |-> o]

\* Array.isArray(value)
IsArray(value) == value.t = "array"

\* the entries of obj with key set to value: in place when the key is
\* there, appended otherwise
SetKey(o, key, value) ==
  IF \E i \in 1..Len(o) : o[i][1] = key
  THEN [i \in 1..Len(o) |-> IF o[i][1] = key THEN <<key, value>> ELSE o[i]]
  ELSE Append(o, <<key, value>>)

\* the key of the element at 0-based position i of an array or string
IndexKey(i) == Digits(i)[1]

\* {...item}: the own enumerable entries of a value (indices up to 9)
Spread(item) ==
  CASE item.t = "object" -> item.o
    [] item.t = "array"  -> [i \in 1..Len(item.a) |-> <<IndexKey(i - 1), item.a[i]>>]
    [] item.t = "string" -> [i \in 1..Len(item.s) |-> <<IndexKey(i - 1), Str(<<item.s[i]>>)>>]
    [] OTHER -> <<>>

\* value?.[part], line 83, for the keys the model's paths use
GetProp(value, part) ==
  CASE value.t = "object" ->
         IF \E i \in 1..Len(value.o) : value.o[i][1] = part
         THEN value.o[CHOOSE i \in 1..Len(value.o) : value.o[i][1] = part][2]
         ELSE Undefined
    [] value.t = "array" ->
         IF part = "length" THEN Num(Len(value.a))
         ELSE IF \E i \in 1..Len(value.a) : IndexKey(i - 1) = part
              THEN value.a[CHOOSE i \in 1..Len(value.a) : IndexKey(i - 1) = part]
              ELSE Undefined
    [] OTHER -> Undefined

\* the loop of lines 82-89 over the parts of the path
RECURSIVE WalkParts(_, _)
WalkParts(value, parts) ==
  IF parts = <<>> THEN value
  ELSE LET next == GetProp(value, Head(parts))
       IN  IF next.t = "undefined" THEN next ELSE WalkParts(next, Tail(parts))

\* getNestedValue(obj, path), path given as path.split('.')
GetNestedValue(obj, path) == WalkParts(obj, path)

\* the truth value JavaScript gives a value in `value ? a : b` and `!value`
Truthy(value) ==
  CASE value.t = "undefined" -> FALSE
    [] value.t = "null"      -> FALSE
    [] value.t = "boolean"   -> value.b
    [] value.t = "number"    -> value.n # 0
    [] value.t = "string"    -> value.s # <<>>
    [] OTHER                 -> TRUE

\* String(value), the conversion replace() applies to what a callback returns
RECURSIVE ToText(_)
RECURSIVE JoinComma(_)
JoinComma(a) ==
  IF a = <<>> THEN <<>>
  ELSE LET first == IF Head(a).t \in {"undefined", "null"} THEN <<>> ELSE ToText(Head(a))
       IN  IF Len(a) = 1 THEN first ELSE first \o <<Chr(",")>> \o JoinComma(Tail(a))

ToText(value) ==
  CASE value.t = "string"    -> value.s
    [] value.t = "number"    ->
         IF value.n < 0 THEN <<Chr("-")>> \o Text(Digits(0 - value.n))
         ELSE Text(Digits(value.n))
    [] value.t = "boolean"   ->
         IF value.b THEN Text(<<"t", "r", "u", "e">>)
         ELSE Text(<<"f", "a", "l", "s", "e">>)
    [] value.t = "array"     -> JoinComma(value.a)
    [] value.t = "object"    ->
         Text(<<"[", "o", "b", "j", "e", "c", "t", " ", "O", "b", "j", "e", "c", "t", "]">>)
    [] value.t = "null"      -> Text(<<"n", "u", "l", "l">>)
    [] OTHER -> Text(<<"u", "n", "d", "e", "f", "i", "n", "e", "d">>)

\* the path captured by /\{\{([^}]+)\}\}/ from an expression: the path of a
\* plain expression; for a block tag left in the text, a first part
\* ("#each items", "/if", ...) that is no key of any context
CapturedPath(token) == IF token.k = "var" THEN token.p ELSE <<token.k>>

\* the position of the first `close` tag at or after position 3 of s, which
\* ends the shortest non-empty body [\s\S]+? after the tag at position 1;
\* 0 when there is none
FirstClose(s, close) ==
  IF \E j \in 3..Len(s) : s[j].k = close
  THEN CHOOSE j \in 3..Len(s) :
         s[j].k = close /\ \A i \in 3..(j - 1) : s[i].k # close
  ELSE 0

\* the context of one iteration, lines 40-46
LoopContext(array, index, root) ==
  Obj(SetKey(SetKey(SetKey(SetKey(Spread(array[index + 1]),
        "@index", Num(index)),
        "@first", Bool(index = 0)),
        "@last", Bool(index = Len(array) - 1)),
        "@root", root))

RECURSIVE RenderTemplate(_, _)
RECURSIVE MapJoin(_, _, _, _)
RECURSIVE EachPass(_, _)
RECURSIVE IfPass(_, _)
RECURSIVE UnlessPass(_, _)

\* array.map(...).join('') of lines 38-50, from 0-based position index on
MapJoin(array, index, loopContent, root) ==
  IF index >= Len(array) THEN <<>>
  ELSE RenderTemplate(loopContent, LoopContext(array, index, root))
         \o MapJoin(array, index + 1, loopContent, root)

\* the callback of lines 34-51 for one match
EachMatch(arrayPath, loopContent, root) ==
  LET array == GetNestedValue(root, arrayPath)
  IN  IF ~IsArray(array) THEN <<>> ELSE MapJoin(array.a, 0, loopContent, root)

\* template.replace(/\{\{#each ([^}]+)\}\}([\s\S]+?)\{\{\/each\}\}/g, ...)
EachPass(s, root) ==
  IF s = <<>> THEN <<>>
  ELSE LET j == FirstClose(s, "/each")
       IN  IF Head(s).k = "#each" /\ j > 0
           THEN EachMatch(Head(s).p, SubSeq(s, 2, j - 1), root)
                  \o EachPass(SubSeq(s, j + 1, Len(s)), root)
           ELSE <<Head(s)>> \o EachPass(Tail(s), root)

\* IfMatch without the array check of line 58
IfMatch_NoArrayCheck(condition, ifContent, root) ==
  IF Truthy(GetNestedValue(root, condition))
  THEN RenderTemplate(ifContent, root) ELSE <<>>

\* the callback of lines 54-62 for one match
IfMatch(condition, ifContent, root) ==
  LET value == GetNestedValue(root, condition)
  IN  IF IsArray(value)
      THEN (IF Len(value.a) > 0 THEN RenderTemplate(ifContent, root) ELSE <<>>)
      ELSE (IF Truthy(value) THEN RenderTemplate(ifContent, root) ELSE <<>>)

\* output.replace(/\{\{#if ([^}]+)\}\}([\s\S]+?)\{\{\/if\}\}/g, ...)
IfPass(s, root) ==
  IF s = <<>> THEN <<>>
  ELSE LET j == FirstClose(s, "/if")
       IN  IF Head(s).k = "#if" /\ j > 0
           THEN IfMatch(Head(s).p, SubSeq(s, 2, j - 1), root)
                  \o IfPass(SubSeq(s, j + 1, Len(s)), root)
           ELSE <<Head(s)>> \o IfPass(Tail(s), root)

\* the callback of lines 65-68 for one match
UnlessMatch(condition, unlessContent, root) ==
  LET value == GetNestedValue(root, condition)
  IN  IF ~Truthy(value) THEN RenderTemplate(unlessContent, root) ELSE <<>>

\* output.replace(/\{\{#unless ([^}]+)\}\}([\s\S]+?)\{\{\/unless\}\}/g, ...)
UnlessPass(s, root) ==
  IF s = <<>> THEN <<>>
  ELSE LET j == FirstClose(s, "/unless")
       IN  IF Head(s).k = "#unless" /\ j > 0
           THEN UnlessMatch(Head(s).p, SubSeq(s, 2, j - 1), root)
                  \o UnlessPass(SubSeq(s, j + 1, Len(s)), root)
           ELSE <<Head(s)>> \o UnlessPass(Tail(s), root)

\* the callback of lines 71-73 for one match: getNestedValue(...) || ''
PlaceholderMatch(path, root) ==
  LET value == GetNestedValue(root, path)
  IN  IF Truthy(value) THEN ToText(value) ELSE <<>>

\* output.replace(/\{\{([^}]+)\}\}/g, ...)
RECURSIVE PlaceholderPass(_, _)
PlaceholderPass(s, root) ==
  IF s = <<>> THEN <<>>
  ELSE (IF Head(s).k = "chr" THEN <<Head(s)>>
        ELSE PlaceholderMatch(CapturedPath(Head(s)), root))
         \o PlaceholderPass(Tail(s), root)

\* renderTemplate(template, data), lines 32-76
RenderTemplate(tpl, root) ==
  PlaceholderPass(UnlessPass(IfPass(EachPass(tpl, root), root), root), root)

---------------------------------------------------------------------------
(* Calls of slugify against one registry.                                  *)

\* one call slugify(input, registry): lines 146-198, the registration of
\* lines 193-195 included
Assign(input) ==
  LET finalSlug == Slugify(input, registry)
  IN  /\ before' = registry
      /\ registry' = registry \cup {finalSlug}
      /\ inputs' = Append(inputs, input)
      /\ returned' = Append(returned, finalSlug)
      /\ UNCHANGED <<initial, renderVars, siteVars>>

\* the label and the result of the last call
label == inputs[Len(inputs)]
result == returned[Len(returned)]
calls == Len(returned)

Cats == <<"c", "a", "t", "s">>
HelloWorld ==
  <<" ", " ", "H", "e", "l", "l", "o", " ", " ", " ", "W", "o", "r", "l", "d",
    "!", "!", " ">>

\* the registry holding c and its suffixed forms -2 .. -k
Taken(c, k) == {c} \cup {Suffixed(c, n) : n \in 2..k}

MaxCalls == 3

\* labels of the call sequences: equal and colliding labels, labels at the
\* length ceiling, and one of 30 characters that ends in -2 as a suffix does
RunLabels ==
  { Cats, <<"C", "a", "t", "s">>, Cats \o <<"-", "2">>, <<>>,
    Rep("a", 31), Rep("a", 28) \o <<"-", "b">>,
    Rep("a", 28) \o <<"-", "2">>,
    Rep("a", 27) \o <<"-", "b", "c">>, Rep("a", 26) \o <<"-", "b", "c", "d">> }

RunRegistries ==
  { {}, {Cats}, {Cats \o <<"-", "2">>}, Taken(Cats, 9), Taken(Rep("a", 30), 9),
    Taken(Rep("a", 27) \o <<"-", "b", "c">>, 9),
    Taken(Rep("a", 26) \o <<"-", "b", "c", "d">>, 9) }

InitSlug ==
  /\ registry \in RunRegistries
  /\ initial = registry
  /\ before = registry
  /\ inputs = <<>>
  /\ returned = <<>>
  /\ template = <<>>
  /\ data = Obj(<<>>)
  /\ output = <<>>
  /\ rendered = FALSE
  /\ pieces = <<<<>>, <<>>, <<>>>>
  /\ history = <<>>
  /\ IdleSite

NextSlug == \E input \in RunLabels : calls < MaxCalls /\ Assign(input)

SpecSlug == InitSlug /\ [][NextSlug]_vars

\* every label of at most MaxLabelLen characters over Alphabet
Alphabet == {"a", "A", "1", "_", "-", " ", "!", "*", "e+acute", "ScriptH"}
MaxLabelLen == 3

RECURSIVE TextsUpTo(_)
TextsUpTo(n) ==
  IF n = 0 THEN {<<>>}
  ELSE LET shorter == TextsUpTo(n - 1)
       IN  shorter \cup {Append(t, c) : t \in shorter, c \in Alphabet}

NormLabels ==
  TextsUpTo(MaxLabelLen) \cup {HelloWorld, Cats, <<"x">>}
    \cup {Rep("a", k) \o t : k \in 27..31, t \in TextsUpTo(1)}

NormRegistries ==
  { {}, {<<"a", "0">>, <<"a", "-", "a">>, <<"u", "n", "t", "i", "t", "l", "e", "d">>},
    Taken(Rep("a", 30), 9) }

InitNorm ==
  /\ registry \in NormRegistries
  /\ initial = registry
  /\ before = registry
  /\ inputs = <<>>
  /\ returned = <<>>
  /\ template = <<>>
  /\ data = Obj(<<>>)
  /\ output = <<>>
  /\ rendered = FALSE
  /\ pieces = <<<<>>, <<>>, <<>>>>
  /\ history = <<>>
  /\ IdleSite

NextNorm == \E input \in NormLabels : calls = 0 /\ Assign(input)

SpecNorm == InitNorm /\ [][NextNorm]_vars

---------------------------------------------------------------------------
(* Calls of renderTemplate.                                                *)

\* one call renderTemplate(template, data), lines 32-76
Render ==
  /\ ~rendered
  /\ output' = RenderTemplate(template, data)
  /\ rendered' = TRUE
  /\ UNCHANGED <<template, data, pieces, history, slugVars, siteVars>>

\* {{#each path}}body{{/each}}, {{#if path}}body{{/if}}, {{#unless path}}body{{/unless}}
EachBlock(path, body) == <<EachOpen(path)>> \o body \o <<EachClose>>
IfBlock(path, body) == <<IfOpen(path)>> \o body \o <<IfClose>>
UnlessBlock(path, body) == <<UnlessOpen(path)>> \o body \o <<UnlessClose>>

\* the elements of the sequences of the contexts
ItemA == Obj(<< <<"name", Str(Text(<<"a">>))>> >>)
ItemB == Obj(<< <<"name", Str(Text(<<"b">>))>> >>)
ItemC ==
  Obj(<< <<"name", Str(Text(<<"c">>))>>,
         <<"tags", Arr(<< Obj(<< <<"name", Str(Text(<<"x">>))>> >>),
                          Obj(<< <<"name", Str(Text(<<"y">>))>> >>) >>)>>,
         <<"flag", Bool(TRUE)>> >>)
Items == {ItemA, ItemB, ItemC}

MaxItems == 2

RECURSIVE ArraysUpTo(_)
ArraysUpTo(n) ==
  IF n = 0 THEN {<<>>}
  ELSE LET shorter == ArraysUpTo(n - 1)
       IN  shorter \cup {Append(a, item) : a \in shorter, item \in Items}

\* what the context holds at `items`: nothing, a sequence, or a value that
\* is no sequence
ItemsValues ==
  {Undefined, Num(5), Str(Text(<<"s">>))} \cup {Arr(a) : a \in ArraysUpTo(MaxItems)}

\* what the context holds at `flag`
FlagValues ==
  { Undefined, Null, Bool(TRUE), Bool(FALSE), Num(0), Num(1), Num(12),
    Str(<<>>), Str(Text(<<"a">>)), Obj(<<>>), Obj(<< <<"name", Str(Text(<<"o">>))>> >>),
    Arr(<<>>), Arr(<<Str(Text(<<"x">>))>>) }

\* the entry of key, left out when the value is undefined
Entry(key, value) == IF value.t = "undefined" THEN <<>> ELSE << <<key, value>> >>

Contexts ==
  { Obj(Entry("items", i) \o Entry("flag", f)
        \o << <<"title", Str(Text(<<"t">>))>>,
              <<"tags", Arr(<< Obj(<< <<"name", Str(Text(<<"r">>))>> >>) >>)>>,
              <<"meta", Obj(<< <<"name", Str(Text(<<"m">>))>>, <<"count", Num(0)>> >>)>> >>)
      : i \in ItemsValues, f \in FlagValues }

VarPaths ==
  { <<"flag">>, <<"title">>, <<"meta", "name">>, <<"meta", "count">>,
    <<"meta", "missing", "name">>, <<"missing">>, <<"missing", "name">> }
CondPaths == {<<"flag">>, <<"items">>, <<"meta", "name">>, <<"missing", "name">>}
EachPaths == {<<"items">>, <<"flag">>, <<"missing", "name">>}

Yes == Text(<<"y", "e", "s">>)
CondBodies ==
  { Yes, <<Var(<<"title">>)>>, <<Chr("x"), Var(<<"meta", "name">>)>>,
    <<EachOpen(<<"items">>), Var(<<"name">>), EachClose>> }

\* {{name}}-{{@index}};
ExampleBody == <<Var(<<"name">>), Chr("-"), Var(<<"@index">>), Chr(";")>>
\* {{#if @first}}F{{/if}}{{name}}{{#if @last}}L{{/if}}
FirstLastBody ==
  IfBlock(<<"@first">>, <<Chr("F")>>) \o <<Var(<<"name">>)>>
    \o IfBlock(<<"@last">>, <<Chr("L")>>)
\* {{#if flag}}y{{/if}}
FlagBody == IfBlock(<<"flag">>, <<Chr("y")>>)
\* [{{#each tags}}{{name}}{{/each}}]
NestedBody == <<Chr("[")>> \o EachBlock(<<"tags">>, <<Var(<<"name">>)>>) \o <<Chr("]")>>
\* {{@root.title}}
RootBody == <<Var(<<"@root", "title">>)>>

EachBodies ==
  {ExampleBody, FirstLastBody, FlagBody, NestedBody, RootBody, <<Chr("x")>>, <<>>}

Blocks ==
  {<<Var(path)>> : path \in VarPaths}
    \cup {IfBlock(path, body) : path \in CondPaths, body \in CondBodies}
    \cup {UnlessBlock(path, body) : path \in CondPaths, body \in CondBodies}
    \cup {EachBlock(path, body) : path \in EachPaths, body \in EachBodies}

\* the texts before and after the block
Affixes ==
  { <<>>, <<Chr("<"), Var(<<"title">>), Chr(">")>>,
    EachBlock(<<"items">>, <<Var(<<"name">>)>>) }

InitRender ==
  /\ pieces \in Affixes \X Blocks \X Affixes
  /\ template = pieces[1] \o pieces[2] \o pieces[3]
  /\ data \in Contexts
  /\ output = <<>>
  /\ rendered = FALSE
  /\ history = <<>>
  /\ registry = {}
  /\ initial = {}
  /\ before = {}
  /\ inputs = <<>>
  /\ returned = <<>>
  /\ IdleSite

NextRender == Render

SpecRender == InitRender /\ [][NextRender]_vars

---------------------------------------------------------------------------
(* Calls of renderTemplate on contexts whose values hold the characters of  *)
(* template expressions.                                                   *)

\* the value of `secret`, a character no template and no other value holds
Secret == Text(<<"S">>)

\* what a field may hold: plain text, {{secret}}, a{{secret}},
\* {{#if name}}{{secret}}{{/if}}, {{@root.secret}}
Payloads ==
  { Text(<<"v">>), <<Var(<<"secret">>)>>, <<Chr("a"), Var(<<"secret">>)>>,
    IfBlock(<<"name">>, <<Var(<<"secret">>)>>), <<Var(<<"@root", "secret">>)>> }

PayloadContexts ==
  { Obj(<< <<"name", Str(v)>>, <<"flag", Bool(f)>>,
           <<"items", Arr([i \in 1..n |-> Obj(<< <<"name", Str(w)>> >>)])>>,
           <<"secret", Str(Secret)>> >>)
      : v \in Payloads, w \in Payloads, f \in BOOLEAN, n \in 0..MaxItems }

\* {{name}} alone, and in the body of a conditional or of a loop
NameVar == <<Var(<<"name">>)>>
PayloadBlocks ==
  { NameVar, IfBlock(<<"flag">>, NameVar), UnlessBlock(<<"flag">>, NameVar),
    EachBlock(<<"items">>, NameVar) }

PayloadAffixes == {<<>>, <<Chr("<")>>}

InitPayload ==
  /\ pieces \in PayloadAffixes \X PayloadBlocks \X PayloadAffixes
  /\ template = pieces[1] \o pieces[2] \o pieces[3]
  /\ data \in PayloadContexts
  /\ output = <<>>
  /\ rendered = FALSE
  /\ history = <<>>
  /\ IdleSlug
  /\ IdleSite

NextPayload == Render

SpecPayload == InitPayload /\ [][NextPayload]_vars

---------------------------------------------------------------------------
(* Calls of renderTemplate, one after another, on one context object.      *)

\* ContextAfter with a loop that sets @index in the items themselves
ContextAfter_Annotated(tpl, root) ==
  LET items == GetProp(root, "items")
  IN  IF items.t = "array" /\ \E i \in 1..Len(tpl) : tpl[i].k = "#each"
      THEN Obj(SetKey(root.o, "items",
                 Arr([i \in 1..Len(items.a) |->
                        IF items.a[i].t = "object"
                        THEN Obj(SetKey(items.a[i].o, "@index", Num(i - 1)))
                        ELSE items.a[i]])))
      ELSE root

\* the context object after renderTemplate(tpl, root) has returned: lines
\* 32-91 assign to their own variables only, and the context of an
\* iteration is a new object (lines 40-46)
ContextAfter(tpl, root) == root

\* renderTemplate(tpl, data), the call and its return
Call(tpl) ==
  /\ template' = tpl
  /\ output' = RenderTemplate(tpl, data)
  /\ data' = ContextAfter(tpl, data)
  /\ rendered' = TRUE
  /\ history' = Append(history, [template |-> tpl, context |-> data,
                                 text |-> output', left |-> data'])
  /\ UNCHANGED <<pieces, slugVars, siteVars>>

\* {{items.0.@index}}, which reads what a loop would have left in an item
FirstIndexBody == <<Var(<<"items", "0", "@index">>)>>

CallTemplates ==
  { EachBlock(<<"items">>, ExampleBody), EachBlock(<<"items">>, NestedBody),
    IfBlock(<<"flag">>, <<Var(<<"title">>)>>), FirstIndexBody }

MaxRenders == 3

InitCalls ==
  /\ data \in Contexts
  /\ template = <<>>
  /\ output = <<>>
  /\ rendered = FALSE
  /\ pieces = <<<<>>, <<>>, <<>>>>
  /\ history = <<>>
  /\ IdleSlug
  /\ IdleSite

NextCalls == \E tpl \in CallTemplates : Len(history) < MaxRenders /\ Call(tpl)

SpecCalls == InitCalls /\ [][NextCalls]_vars

---------------------------------------------------------------------------
(* Site generation, src/ssg.js:200-418 and src/unnamed/part_004:30-415.    *)
(*                                                                         *)
(* A path is a text relative to config.outputDir, which is the empty path. *)
(* An item is an object value whose strings hold plain characters; it is   *)
(* named below by its position in allItems, so that two items holding the  *)
(* same fields stay two items.                                             *)

DotHtml == <<".", "h", "t", "m", "l">>
IndexHtml == <<"i", "n", "d", "e", "x">> \o DotHtml
Untitled == <<"u", "n", "t", "i", "t", "l", "e", "d">>

\* path.join(a, b)
Join(a, b) == IF a = <<>> THEN b ELSE a \o <<"/">> \o b

\* String(value) of a string, a number or an object
StringOf(value) ==
  CASE value.t = "string" -> value.s
    [] value.t = "number" ->
         IF value.n < 0 THEN <<"-">> \o Digits(0 - value.n) ELSE Digits(value.n)
    [] OTHER ->
         <<"[", "o", "b", "j", "e", "c", "t", " ", "O", "b", "j", "e", "c", "t", "]">>

\* a || b
OrElse(a, b) == IF Truthy(a) THEN a ELSE b

\* slugify(input) as generateSite and processTaxonomies call it: no second
\* argument, so existingSlugs is the new empty Set of line 146
SlugifyAlone(input) == Slugify(StringOf(input), {})

\* item.slug || slugify(item.title || 'untitled'), line 379
ItemSlug(item) ==
  LET slug == GetProp(item, "slug")
  IN  IF Truthy(slug) THEN StringOf(slug)
      ELSE SlugifyAlone(OrElse(GetProp(item, "title"), Str(Untitled)))

\* config.path ? path.join(config.outputDir, slugify(config.path))
\*             : config.outputDir, line 372
BasePath(cfg) == IF cfg.path # <<>> THEN SlugifyAlone(Str(cfg.path)) ELSE <<>>

\* the result of a division that Math.ceil rounded: a number, Infinity or NaN
Finite(n) == [kind |-> "finite", n |-> n]
Infinity == [kind |-> "infinity", n |-> 0]
NaN == [kind |-> "nan", n |-> 0]

\* CeilDiv with the quotient rounded down
CeilDiv_Floor(length, itemsPerPage) ==
  CASE itemsPerPage.t = "number" /\ itemsPerPage.n > 0 ->
         [kind |-> "finite", n |-> length \div itemsPerPage.n]
    [] itemsPerPage.t = "number" /\ itemsPerPage.n < 0 ->
         [kind |-> "finite", n |-> 0 - (length \div (0 - itemsPerPage.n))]
    [] itemsPerPage.t = "number" /\ itemsPerPage.n = 0 ->
         [kind |-> IF length = 0 THEN "nan" ELSE "infinity", n |-> 0]
    [] OTHER -> [kind |-> "nan", n |-> 0]

\* Math.ceil(length / itemsPerPage); a string of the model's configurations
\* holds no digit and converts to NaN, as undefined does
CeilDiv(length, itemsPerPage) ==
  CASE itemsPerPage.t = "number" /\ itemsPerPage.n > 0 ->
         Finite((length + itemsPerPage.n - 1) \div itemsPerPage.n)
    [] itemsPerPage.t = "number" /\ itemsPerPage.n < 0 ->
         Finite(0 - (length \div (0 - itemsPerPage.n)))
    [] itemsPerPage.t = "number" /\ itemsPerPage.n = 0 ->
         IF length = 0 THEN NaN ELSE Infinity
    [] OTHER -> NaN

\* page <= totalPages
AtMost(page, totalPages) ==
  CASE totalPages.kind = "finite" -> page <= totalPages.n
    [] totalPages.kind = "infinity" -> TRUE
    [] OTHER -> FALSE

\* array.slice(begin, end)
Slice(array, begin, end) ==
  LET clamp(i) == IF i < 0 THEN (IF Len(array) + i < 0 THEN 0 ELSE Len(array) + i)
                  ELSE IF i > Len(array) THEN Len(array) ELSE i
  IN  SubSeq(array, clamp(begin) + 1, clamp(end))

\* the positions of the items of allItems, in order
Positions(items) == [i \in 1..Len(items) |-> i]

\* ReplaceStar with the pattern left as it is
ReplaceStar_Kept(pattern, page) == pattern

\* pattern.replace('*', page): the first asterisk gives way to the number
ReplaceStar(pattern, page) ==
  IF \E i \in 1..Len(pattern) : pattern[i] = "*"
  THEN LET i == CHOOSE j \in 1..Len(pattern) :
                  pattern[j] = "*" /\ \A k \in 1..(j - 1) : pattern[k] # "*"
       IN  SubSeq(pattern, 1, i - 1) \o Digits(page) \o SubSeq(pattern, i + 1, Len(pattern))
  ELSE pattern

\* one call of generateHTML that wrote outputPath: the template, the items
\* handed to it, the page number (0 outside pagination), for a term page
\* the term and the taxonomy, and for a terms page the terms list
File(templateName, outputPath, items, page, term, taxonomy, terms) ==
  [tpl |-> templateName, path |-> outputPath, items |-> items, page |-> page,
   term |-> term, taxonomy |-> taxonomy, terms |-> terms]

\* the characters of a taxonomy of config.taxonomies, which names a field
KeyChars(key) ==
  IF key = "genres" THEN <<"g", "e", "n", "r", "e", "s">> ELSE <<"t", "a", "g", "s">>

\* PushTerm with the name of a term taken from the label seen last
PushTerm_LastName(termsMap, term, i) ==
  LET termName == OrElse(GetProp(term, "name"), term)
      termSlug == SlugifyAlone(termName)
  IN  IF \E k \in 1..Len(termsMap) : termsMap[k].slug = termSlug
      THEN [k \in 1..Len(termsMap) |->
              IF termsMap[k].slug = termSlug
              THEN [termsMap[k] EXCEPT !.items = Append(@, i), !.name = termName]
              ELSE termsMap[k]]
      ELSE Append(termsMap, [slug |-> termSlug, name |-> termName, items |-> <<i>>])

\* PushTerm with an item pushed once only under a term
PushTerm_Once(termsMap, term, i) ==
  LET termName == OrElse(GetProp(term, "name"), term)
      termSlug == SlugifyAlone(termName)
  IN  IF \E k \in 1..Len(termsMap) : termsMap[k].slug = termSlug
      THEN [k \in 1..Len(termsMap) |->
              IF termsMap[k].slug = termSlug
                   /\ \A j \in 1..Len(termsMap[k].items) : termsMap[k].items[j] # i
              THEN [termsMap[k] EXCEPT !.items = Append(@, i)]
              ELSE termsMap[k]]
      ELSE Append(termsMap, [slug |-> termSlug, name |-> termName, items |-> <<i>>])

\* lines 284-293: termsMap after the item at position i is pushed under term
PushTerm(termsMap, term, i) ==
  LET termName == OrElse(GetProp(term, "name"), term)
      termSlug == SlugifyAlone(termName)
  IN  IF \E k \in 1..Len(termsMap) : termsMap[k].slug = termSlug
      THEN [k \in 1..Len(termsMap) |->
              IF termsMap[k].slug = termSlug
              THEN [termsMap[k] EXCEPT !.items = Append(@, i)]
              ELSE termsMap[k]]
      ELSE Append(termsMap, [slug |-> termSlug, name |-> termName, items |-> <<i>>])

\* the loop of line 283 over item[taxonomy]
RECURSIVE PushTerms(_, _, _)
PushTerms(termsMap, terms, i) ==
  IF terms = <<>> THEN termsMap
  ELSE PushTerms(PushTerm(termsMap, Head(terms), i), Tail(terms), i)

\* the loop of lines 281-296 over allItems, from the item at position i on
RECURSIVE CollectTerms(_, _, _, _)
CollectTerms(termsMap, items, taxonomy, i) ==
  IF i > Len(items) THEN termsMap
  ELSE LET value == GetProp(items[i], taxonomy)
       IN  CollectTerms(IF Truthy(value) /\ IsArray(value)
                        THEN PushTerms(termsMap, value.a, i) ELSE termsMap,
                        items, taxonomy, i + 1)

\* termsMap of one taxonomy: its entries {slug, name, items} in insertion order
TermsMap(items, taxonomy) == CollectTerms(<<>>, items, taxonomy, 1)

\* `page-${page}`
PageDir(page) == <<"p", "a", "g", "e", "-">> \o Digits(page)

\* the loop of lines 307-332 over the pages of one term, from `page` on
RECURSIVE TermPages(_, _, _, _, _)
TermPages(cfg, taxonomyDir, taxonomy, entry, page) ==
  LET itemsPerPage == cfg.itemsPerPage
      totalPages == CeilDiv(Len(entry.items), itemsPerPage)
      pageItems == Slice(entry.items, (page - 1) * itemsPerPage.n, page * itemsPerPage.n)
      outputPath ==
        Join(taxonomyDir,
             IF page = 1 THEN Join(entry.slug, IndexHtml)
             ELSE Join(entry.slug, Join(PageDir(page), IndexHtml)))
  IN  IF ~AtMost(page, totalPages) THEN <<>>
      ELSE <<File("taxonomy", outputPath, pageItems, page, entry.name, taxonomy, <<>>)>>
           \o TermPages(cfg, taxonomyDir, taxonomy, entry, page + 1)

\* lines 299-345: the files of the terms of termsMap from entry k on
RECURSIVE TermFiles(_, _, _, _, _)
TermFiles(cfg, taxonomyDir, taxonomy, termsMap, k) ==
  IF k > Len(termsMap) THEN <<>>
  ELSE (IF cfg.paginated
        THEN TermPages(cfg, taxonomyDir, taxonomy, termsMap[k], 1)
        ELSE <<File("taxonomy", Join(Join(taxonomyDir, termsMap[k].slug), IndexHtml),
                    termsMap[k].items, 0, termsMap[k].name, taxonomy, <<>>)>>)
       \o TermFiles(cfg, taxonomyDir, taxonomy, termsMap, k + 1)

\* TermsList in the order opposite to the insertion order of the Map
TermsList_Reversed(termsMap) ==
  [k \in 1..Len(termsMap) |->
     [name |-> termsMap[Len(termsMap) + 1 - k].name,
      slug |-> termsMap[Len(termsMap) + 1 - k].slug,
      count |-> Len(termsMap[Len(termsMap) + 1 - k].items)]]

\* lines 348-352: termsList
TermsList(termsMap) ==
  [k \in 1..Len(termsMap) |->
     [name |-> termsMap[k].name, slug |-> termsMap[k].slug,
      count |-> Len(termsMap[k].items)]]

\* one pass of the loop of lines 271-358: the files of one taxonomy
TaxonomyFiles(cfg, items, basePath, taxonomy) ==
  LET taxonomyDir == Join(basePath, SlugifyAlone(Str(KeyChars(taxonomy))))
      termsMap == TermsMap(items, taxonomy)
  IN  TermFiles(cfg, taxonomyDir, taxonomy, termsMap, 1)
      \o <<File("terms", Join(taxonomyDir, IndexHtml), <<>>, 0, Undefined, taxonomy,
                TermsList(termsMap))>>

\* whether a page loop of processTaxonomies would never end
TermLoopEndless(cfg, items, taxonomy) ==
  /\ cfg.paginated
  /\ \E k \in 1..Len(TermsMap(items, taxonomy)) :
       CeilDiv(Len(TermsMap(items, taxonomy)[k].items), cfg.itemsPerPage).kind = "infinity"

---------------------------------------------------------------------------
(* The run of src/ssg.js: the statements of lines 201-216 and              *)
(* generateSite, one action for each part of it and one step for each pass *)
(* of its loops.                                                           *)

TemplateNames == {"base", "single", "list", "pagination", "taxonomy", "terms"}

PageStarHtml == <<"p", "a", "g", "e", "-", "*">> \o DotHtml

\* the most passes the model follows a page loop for
MaxPages == 26

\* an entry of console.error
Report(what, outputPath) == [what |-> what, path |-> outputPath]

\* Fetched with the first element of an array only
Fetched_FirstOnly(body) == IF IsArray(body) THEN SubSeq(body.a, 1, 1) ELSE <<body>>

\* Array.isArray(data) ? data : [data], line 368: the items a response adds
Fetched(body) == IF IsArray(body) THEN body.a ELSE <<body>>

\* lines 201-216: readFileSync throws when a template is not there
Load ==
  /\ config.program = "ssg.js"
  /\ pc = "load"
  /\ pc' = IF TemplateNames \subseteq config.templates THEN "fetch" ELSE "crashed"
  /\ UNCHANGED <<config, sources, cursor, allItems, written, reported>>
  /\ UNCHANGED <<slugVars, renderVars>>

\* lines 366-369, one pass: a rejected fetch is thrown at the await and
\* caught at line 413
Fetch ==
  /\ config.program = "ssg.js"
  /\ pc = "fetch"
  /\ IF cursor < Len(sources)
     THEN LET response == sources[cursor + 1]
          IN  IF response.rejected
              THEN /\ pc' = "failed"
                   /\ reported' = Append(reported, Report("site", <<>>))
                   /\ UNCHANGED <<cursor, allItems>>
              ELSE /\ allItems' = allItems \o Fetched(response.body)
                   /\ cursor' = cursor + 1
                   /\ UNCHANGED <<pc, reported>>
     ELSE /\ pc' = "single"
          /\ cursor' = 0
          /\ UNCHANGED <<allItems, reported>>
  /\ UNCHANGED <<config, sources, written>>
  /\ UNCHANGED <<slugVars, renderVars>>

\* lines 378-381, one pass
Single ==
  /\ config.program = "ssg.js"
  /\ pc = "single"
  /\ IF cursor < Len(allItems)
     THEN LET item == allItems[cursor + 1]
              itemSlug == ItemSlug(item)
          IN  /\ written' = Append(written,
                     File("single", Join(BasePath(config), itemSlug \o DotHtml),
                          <<cursor + 1>>, 0, Undefined, "", <<>>))
              /\ cursor' = cursor + 1
              /\ pc' = pc
     ELSE /\ pc' = "notfound"
          /\ cursor' = 0
          /\ written' = written
  /\ UNCHANGED <<config, sources, allItems, reported>>
  /\ UNCHANGED <<slugVars, renderVars>>

\* lines 383-388
NotFound ==
  /\ config.program = "ssg.js"
  /\ pc = "notfound"
  /\ written' = IF config.notFound
                THEN Append(written, File("404", <<"4", "0", "4">> \o DotHtml,
                                          <<>>, 0, Undefined, "", <<>>))
                ELSE written
  /\ pc' = "list"
  /\ UNCHANGED <<config, sources, cursor, allItems, reported>>
  /\ UNCHANGED <<slugVars, renderVars>>

\* lines 391-407: one pass of the page loop, or the one unpaginated page
List ==
  /\ config.program = "ssg.js"
  /\ pc = "list"
  /\ IF config.paginated
     THEN LET itemsPerPage == config.itemsPerPage
              totalPages == CeilDiv(Len(allItems), itemsPerPage)
              filenamePattern ==
                IF config.filenamePattern # <<>> THEN config.filenamePattern
                ELSE PageStarHtml
              page == cursor + 1
              pageItems == Slice(Positions(allItems), (page - 1) * itemsPerPage.n,
                                 page * itemsPerPage.n)
              outputPath ==
                Join(BasePath(config),
                     IF page = 1 THEN IndexHtml ELSE ReplaceStar(filenamePattern, page))
          IN  IF AtMost(page, totalPages)
              THEN /\ page <= MaxPages
                   /\ written' = Append(written,
                          File("list", outputPath, pageItems, page, Undefined, "", <<>>))
                   /\ cursor' = page
                   /\ pc' = pc
              ELSE /\ pc' = "taxonomies"
                   /\ cursor' = 0
                   /\ written' = written
     ELSE /\ written' = Append(written,
                 File("list", Join(BasePath(config), IndexHtml), Positions(allItems),
                      0, Undefined, "", <<>>))
          /\ pc' = "taxonomies"
          /\ cursor' = 0
  /\ UNCHANGED <<config, sources, allItems, reported>>
  /\ UNCHANGED <<slugVars, renderVars>>

\* line 410 and lines 269-358: one pass of the loop over config.taxonomies
Taxonomies ==
  /\ config.program = "ssg.js"
  /\ pc = "taxonomies"
  /\ IF cursor < Len(config.taxonomies)
     THEN /\ ~TermLoopEndless(config, allItems, config.taxonomies[cursor + 1])
          /\ written' = written \o TaxonomyFiles(config, allItems, BasePath(config),
                                                 config.taxonomies[cursor + 1])
          /\ cursor' = cursor + 1
          /\ pc' = pc
     ELSE /\ pc' = "done"
          /\ cursor' = 0
          /\ written' = written
  /\ UNCHANGED <<config, sources, allItems, reported>>
  /\ UNCHANGED <<slugVars, renderVars>>

\* the items of the model's data: two of one title, a third whose title and
\* whose term differ from theirs in case and form only, one with a slug of
\* its own whose genres is no array, one with a short title, one titled as
\* the list page is named that refers to one term three times
Action == <<"a", "c", "t", "i", "o", "n">>
Retro == <<"r", "e", "t", "r", "o">>
Named(chars) == Obj(<< <<"name", Str(chars)>> >>)
GameA ==
  Obj(<< <<"title", Str(Cats)>>, <<"genres", Arr(<<Str(Action), Str(Retro)>>)>> >>)
GameB == Obj(<< <<"title", Str(Cats)>>, <<"genres", Arr(<<Str(Retro)>>)>> >>)
GameC ==
  Obj(<< <<"title", Str(<<"C", "A", "T", "S", "!">>)>>,
         <<"genres", Arr(<<Named(<<"R", "e", "t", "r", "o">>), Str(Action)>>)>>,
         <<"tags", Arr(<<Str(Action)>>)>> >>)
GameD == Obj(<< <<"slug", Str(<<"m", "y">>)>>, <<"genres", Str(Retro)>> >>)
GameE == Obj(<< <<"title", Str(<<"x">>)>> >>)
GameF ==
  Obj(<< <<"title", Str(<<"I", "n", "d", "e", "x">>)>>,
         <<"genres", Arr(<<Str(Retro), Named(<<"R", "e", "t", "r", "o">>), Str(Retro)>>)>> >>)

\* what one URL of config.data gives: a rejection, an array or one object
Rejected == [rejected |-> TRUE, body |-> Undefined]
Resolved(body) == [rejected |-> FALSE, body |-> body]

\* the 25 items of the listing of 10, 10 and 5
Many == Resolved(Arr([i \in 1..25 |-> GameE]))

Responses ==
  { Resolved(Arr(<<GameA, GameB>>)), Resolved(GameC), Resolved(Arr(<<>>)),
    Resolved(Arr(<<GameD, GameE, GameA>>)), Resolved(GameF), Rejected }

MaxSources == 2

RECURSIVE SourcesUpTo(_)
SourcesUpTo(n) ==
  IF n = 1 THEN {<<r>> : r \in Responses}
  ELSE LET shorter == SourcesUpTo(n - 1)
       IN  shorter \cup {Append(s, r) : s \in shorter, r \in Responses}

SourceLists == SourcesUpTo(MaxSources) \cup {<<Many>>}

\* config.pagination: absent, or itemsPerPage and filenamePattern
Paginations ==
  {[paginated |-> FALSE, itemsPerPage |-> Undefined, filenamePattern |-> <<>>]}
  \cup
  {[paginated |-> TRUE, itemsPerPage |-> k, filenamePattern |-> f] :
     k \in {Num(0 - 1), Num(0), Num(1), Num(2), Num(10), Undefined,
            Str(<<"t", "e", "n">>)},
     f \in {<<>>, <<"p", "*">> \o DotHtml}}

\* config.path and whether the theme holds 404.html
Layouts ==
  {[path |-> <<>>, notFound |-> FALSE],
   [path |-> <<"M", "y", " ", "B", "l", "o", "g">>, notFound |-> TRUE]}

TaxonomyLists == {<<>>, <<"genres">>, <<"genres", "tags">>}

Config(program, templates, layout, pagination, taxonomies) ==
  [program |-> program, templates |-> templates, path |-> layout.path,
   notFound |-> layout.notFound, paginated |-> pagination.paginated,
   itemsPerPage |-> pagination.itemsPerPage,
   filenamePattern |-> pagination.filenamePattern, taxonomies |-> taxonomies]

SiteConfigs ==
  {Config("ssg.js", TemplateNames, l, p, t) :
     l \in Layouts, p \in Paginations, t \in TaxonomyLists}
  \cup
  {Config("ssg.js", TemplateNames \ {"terms"}, l, p, <<"genres">>) :
     l \in Layouts, p \in {q \in Paginations : ~q.paginated}}

InitSite ==
  /\ config \in SiteConfigs
  /\ sources \in SourceLists
  /\ pc = "load"
  /\ cursor = 0
  /\ allItems = <<>>
  /\ written = <<>>
  /\ reported = <<>>
  /\ IdleSlug
  /\ IdleRender

NextSite == Load \/ Fetch \/ Single \/ NotFound \/ List \/ Taxonomies

SpecSite == InitSite /\ [][NextSite]_vars

---------------------------------------------------------------------------
(* The run of src/unnamed/part_004, the generator that handles errors:     *)
(* the statements of lines 30-94 and generateSite, lines 321-415.          *)

\* the asterisks a text begins with, dropped
RECURSIVE DropStars(_)
DropStars(s) == IF s # <<>> /\ Head(s) = "*" THEN DropStars(Tail(s)) ELSE s

\* .replace(/\*\*+/g, ''), line 18: every run of two asterisks or more goes
RECURSIVE StripAsteriskRuns(_)
StripAsteriskRuns(s) ==
  IF s = <<>> THEN <<>>
  ELSE IF Head(s) = "*" /\ Len(s) > 1 /\ s[2] = "*"
       THEN StripAsteriskRuns(DropStars(s))
       ELSE <<Head(s)>> \o StripAsteriskRuns(Tail(s))

\* slugify(input), lines 6-27
P4Slugify(input) ==
  IF input.t \in {"undefined", "null"} THEN Untitled
  ELSE TrimEnd(TrimStart(StripNonWord(CollapseHyphens(StripAsteriskRuns(
         SpacesToHyphen(ToLowerCase(StringOf(input))))))))

\* item.slug || slugify(item.title || 'untitled'), line 361
P4ItemSlug(item) ==
  LET slug == GetProp(item, "slug")
  IN  IF Truthy(slug) THEN StringOf(slug)
      ELSE P4Slugify(OrElse(GetProp(item, "title"), Str(Untitled)))

\* line 349
P4BasePath(cfg) == IF cfg.path # <<>> THEN P4Slugify(Str(cfg.path)) ELSE <<>>

\* the itemsPerPage that lines 258 and 383 fall back to
DefaultItemsPerPage == 10

\* config.pagination.itemsPerPage || 10
P4ItemsPerPage(cfg) == OrElse(cfg.itemsPerPage, Num(DefaultItemsPerPage))

\* RequiredTemplates with the optional templates required too
RequiredTemplates_All == {"base", "single", "list", "pagination", "taxonomy", "terms"}

\* the templates loadTemplate is called for without an existence check
RequiredTemplates == {"base", "single", "list", "pagination"}

\* whether the try block of generateHTML, lines 162-205, throws: the
\* template is not loaded, evaluating it under with(data) meets a name the
\* item does not hold, or writeFileSync refuses the path
Throws(cfg, items, file) ==
  \/ file.tpl \notin cfg.templates
  \/ /\ file.tpl = "single"
     /\ \E key \in cfg.reads : GetProp(items[file.items[1]], key).t = "undefined"
  \/ file.path \in cfg.denied

\* generateHTML, lines 161-210, called for each file of a sequence: the
\* files written, and the errors line 207 logs
Generated(cfg, items, files) == SelectSeq(files, LAMBDA f : ~Throws(cfg, items, f))
Logged(cfg, items, files) ==
  LET failed == SelectSeq(files, LAMBDA f : Throws(cfg, items, f))
  IN  [k \in 1..Len(failed) |-> Report("file", failed[k].path)]

\* OnFileError with the process ended
OnFileError_Exit(phase) == "exit1"

\* lines 206-209: the catch block of generateHTML logs and returns, and
\* the caller goes on where it was
OnFileError(phase) == phase

\* lines 229-241: termsMap after the item at position i is pushed under term
P4PushTerm(termsMap, term, i) ==
  LET termName == OrElse(GetProp(term, "name"), term)
      termSlug == P4Slugify(termName)
  IN  IF \E k \in 1..Len(termsMap) : termsMap[k].slug = termSlug
      THEN [k \in 1..Len(termsMap) |->
              IF termsMap[k].slug = termSlug
              THEN [termsMap[k] EXCEPT !.items = Append(@, i)]
              ELSE termsMap[k]]
      ELSE Append(termsMap, [slug |-> termSlug, name |-> termName, items |-> <<i>>])

\* the loop of line 230 over item[taxonomy]
RECURSIVE P4PushTerms(_, _, _)
P4PushTerms(termsMap, terms, i) ==
  IF terms = <<>> THEN termsMap
  ELSE P4PushTerms(P4PushTerm(termsMap, Head(terms), i), Tail(terms), i)

\* the loop of lines 227-250 over allItems, from the item at position i on
RECURSIVE P4CollectTerms(_, _, _, _)
P4CollectTerms(termsMap, items, taxonomy, i) ==
  IF i > Len(items) THEN termsMap
  ELSE LET value == GetProp(items[i], taxonomy)
       IN  P4CollectTerms(IF Truthy(value) /\ IsArray(value)
                          THEN P4PushTerms(termsMap, value.a, i) ELSE termsMap,
                          items, taxonomy, i + 1)

P4TermsMap(items, taxonomy) == P4CollectTerms(<<>>, items, taxonomy, 1)

\* the loop of lines 262-284 over the pages of one term, from `page` on:
\* the calls of generateHTML it makes
RECURSIVE P4TermPages(_, _, _, _, _)
P4TermPages(cfg, taxonomyDir, taxonomy, entry, page) ==
  LET itemsPerPage == P4ItemsPerPage(cfg)
      totalPages == CeilDiv(Len(entry.items), itemsPerPage)
      pageItems == Slice(entry.items, (page - 1) * itemsPerPage.n, page * itemsPerPage.n)
      outputPath ==
        Join(taxonomyDir,
             IF page = 1 THEN entry.slug \o DotHtml
             ELSE Join(entry.slug, PageDir(page) \o DotHtml))
  IN  IF ~AtMost(page, totalPages) THEN <<>>
      ELSE (IF "taxonomy" \in cfg.templates
            THEN <<File("taxonomy", outputPath, pageItems, page, entry.name, taxonomy,
                        <<>>)>>
            ELSE <<>>)
           \o P4TermPages(cfg, taxonomyDir, taxonomy, entry, page + 1)

\* lines 253-295: the calls of generateHTML for the terms from entry k on
RECURSIVE P4TermFiles(_, _, _, _, _)
P4TermFiles(cfg, taxonomyDir, taxonomy, termsMap, k) ==
  IF k > Len(termsMap) THEN <<>>
  ELSE (IF cfg.paginated
        THEN P4TermPages(cfg, taxonomyDir, taxonomy, termsMap[k], 1)
        ELSE IF "taxonomy" \in cfg.templates
             THEN <<File("taxonomy", Join(taxonomyDir, termsMap[k].slug \o DotHtml),
                         termsMap[k].items, 0, termsMap[k].name, taxonomy, <<>>)>>
             ELSE <<>>)
       \o P4TermFiles(cfg, taxonomyDir, taxonomy, termsMap, k + 1)

\* one pass of the loop of lines 216-317: the calls of generateHTML for one
\* taxonomy, the terms list only when its template is loaded (line 298)
P4TaxonomyFiles(cfg, items, basePath, taxonomy) ==
  LET taxonomyDir == Join(basePath, P4Slugify(Str(KeyChars(taxonomy))))
      termsMap == P4TermsMap(items, taxonomy)
  IN  P4TermFiles(cfg, taxonomyDir, taxonomy, termsMap, 1)
      \o (IF "terms" \in cfg.templates
          THEN <<File("terms", Join(taxonomyDir, IndexHtml), <<>>, 0, Undefined,
                      taxonomy, TermsList(termsMap))>>
          ELSE <<>>)

\* lines 30-94: a field of config.json or a required template that is not
\* there ends the process with status 1
P4Load ==
  /\ config.program = "part_004"
  /\ pc = "load"
  /\ IF config.defect # "none"
     THEN /\ pc' = "exit1"
          /\ reported' = Append(reported, Report("config", <<>>))
     ELSE IF ~(RequiredTemplates \subseteq config.templates)
          THEN /\ pc' = "exit1"
               /\ reported' = Append(reported, Report("templates", <<>>))
          ELSE /\ pc' = "fetch"
               /\ reported' = reported
  /\ UNCHANGED <<config, sources, cursor, allItems, written>>
  /\ UNCHANGED <<slugVars, renderVars>>

\* lines 325-346, one pass: a source that fails or returns nothing is
\* passed over; no item at the end of the loop is fatal
P4Fetch ==
  /\ config.program = "part_004"
  /\ pc = "fetch"
  /\ IF cursor < Len(sources)
     THEN LET response == sources[cursor + 1]
          IN  /\ cursor' = cursor + 1
              /\ pc' = pc
              /\ IF response.rejected
                 THEN /\ reported' = Append(reported, Report("source", <<>>))
                      /\ allItems' = allItems
                 ELSE /\ reported' = reported
                      /\ allItems' = IF Truthy(response.body)
                                     THEN allItems \o Fetched(response.body)
                                     ELSE allItems
     ELSE IF allItems = <<>>
          THEN /\ pc' = "exit1"
               /\ reported' = Append(reported, Report("site", <<>>))
               /\ UNCHANGED <<cursor, allItems>>
          ELSE /\ pc' = "single"
               /\ cursor' = 0
               /\ UNCHANGED <<allItems, reported>>
  /\ UNCHANGED <<config, sources, written>>
  /\ UNCHANGED <<slugVars, renderVars>>

\* lines 359-366, one pass
P4Single ==
  /\ config.program = "part_004"
  /\ pc = "single"
  /\ IF cursor < Len(allItems)
     THEN LET item == allItems[cursor + 1]
              itemSlug == P4ItemSlug(item)
              file == File("single", Join(P4BasePath(config), itemSlug \o DotHtml),
                           <<cursor + 1>>, 0, Undefined, "", <<>>)
          IN  /\ cursor' = cursor + 1
              /\ IF Throws(config, allItems, file)
                 THEN /\ reported' = Append(reported, Report("file", file.path))
                      /\ written' = written
                      /\ pc' = OnFileError(pc)
                 ELSE /\ written' = Append(written, file)
                      /\ reported' = reported
                      /\ pc' = pc
     ELSE /\ pc' = "notfound"
          /\ cursor' = 0
          /\ UNCHANGED <<written, reported>>
  /\ UNCHANGED <<config, sources, allItems>>
  /\ UNCHANGED <<slugVars, renderVars>>

\* lines 369-378
P4NotFound ==
  /\ config.program = "part_004"
  /\ pc = "notfound"
  /\ written' = IF config.notFound
                THEN Append(written, File("404", <<"4", "0", "4">> \o DotHtml,
                                          <<>>, 0, Undefined, "", <<>>))
                ELSE written
  /\ pc' = "list"
  /\ UNCHANGED <<config, sources, cursor, allItems, reported>>
  /\ UNCHANGED <<slugVars, renderVars>>

\* lines 381-401: one pass of the page loop, or the one unpaginated page
P4List ==
  /\ config.program = "part_004"
  /\ pc = "list"
  /\ LET itemsPerPage == P4ItemsPerPage(config)
         totalPages == CeilDiv(Len(allItems), itemsPerPage)
         filenamePattern ==
           IF config.filenamePattern # <<>> THEN config.filenamePattern
           ELSE PageStarHtml
         page == cursor + 1
         pageItems == Slice(Positions(allItems), (page - 1) * itemsPerPage.n,
                            page * itemsPerPage.n)
         outputPath ==
           Join(P4BasePath(config),
                IF page = 1 THEN IndexHtml ELSE ReplaceStar(filenamePattern, page))
         file == IF config.paginated
                 THEN File("list", outputPath, pageItems, page, Undefined, "", <<>>)
                 ELSE File("list", Join(P4BasePath(config), IndexHtml),
                           Positions(allItems), 0, Undefined, "", <<>>)
     IN  IF config.paginated /\ ~AtMost(page, totalPages)
         THEN /\ pc' = "taxonomies"
              /\ cursor' = 0
              /\ UNCHANGED <<written, reported>>
         ELSE /\ written' = written \o Generated(config, allItems, <<file>>)
              /\ reported' = reported \o Logged(config, allItems, <<file>>)
              /\ cursor' = IF config.paginated THEN page ELSE 0
              /\ pc' = IF config.paginated THEN pc ELSE "taxonomies"
  /\ UNCHANGED <<config, sources, allItems>>
  /\ UNCHANGED <<slugVars, renderVars>>

\* lines 404-408 and 214-317: one pass of the loop over config.taxonomies,
\* or no pass at all when the taxonomy template is not loaded
P4Taxonomies ==
  /\ config.program = "part_004"
  /\ pc = "taxonomies"
  /\ IF "taxonomy" \in config.templates /\ cursor < Len(config.taxonomies)
     THEN LET files == P4TaxonomyFiles(config, allItems, P4BasePath(config),
                                       config.taxonomies[cursor + 1])
          IN  /\ written' = written \o Generated(config, allItems, files)
              /\ reported' = reported \o Logged(config, allItems, files)
              /\ cursor' = cursor + 1
              /\ pc' = pc
     ELSE /\ pc' = "done"
          /\ cursor' = 0
          /\ UNCHANGED <<written, reported>>
  /\ UNCHANGED <<config, sources, allItems>>
  /\ UNCHANGED <<slugVars, renderVars>>

\* the templates a theme holds: all, or all but optional ones
ThemeTemplates ==
  { TemplateNames, TemplateNames \ {"taxonomy"}, TemplateNames \ {"terms"},
    TemplateNames \ {"taxonomy", "terms"} }

\* what makes generateHTML throw: nothing, a single template that reads
\* `title`, a path that cannot be written
Failures ==
  { [reads |-> {}, denied |-> {}], [reads |-> {"title"}, denied |-> {}],
    [reads |-> {}, denied |-> {Cats \o DotHtml}] }

P4Paginations ==
  {[paginated |-> FALSE, itemsPerPage |-> Undefined, filenamePattern |-> <<>>]}
  \cup
  {[paginated |-> TRUE, itemsPerPage |-> k, filenamePattern |-> <<>>] :
     k \in {Num(0 - 1), Num(0), Num(2), Str(<<"t", "e", "n">>)}}

\* config.taxonomies with config.path and 404.html
P4Layouts ==
  { [taxonomies |-> <<>>, path |-> <<>>, notFound |-> FALSE],
    [taxonomies |-> <<"genres">>, path |-> <<>>, notFound |-> TRUE],
    [taxonomies |-> <<"genres", "tags">>,
     path |-> <<"M", "y", " ", "B", "l", "o", "g">>, notFound |-> FALSE] }

P4Config(templates, layout, pagination, failure, defect) ==
  [program |-> "part_004", templates |-> templates, path |-> layout.path,
   notFound |-> layout.notFound, paginated |-> pagination.paginated,
   itemsPerPage |-> pagination.itemsPerPage,
   filenamePattern |-> pagination.filenamePattern, taxonomies |-> layout.taxonomies,
   reads |-> failure.reads, denied |-> failure.denied, defect |-> defect]

P4Configs ==
  {P4Config(t, l, p, f, "none") :
     t \in ThemeTemplates, l \in P4Layouts, p \in P4Paginations, f \in Failures}
  \cup
  {P4Config(TemplateNames \ {"single"}, l, p, [reads |-> {}, denied |-> {}], "none") :
     l \in P4Layouts, p \in P4Paginations}
  \cup
  {P4Config(TemplateNames, l, p, [reads |-> {}, denied |-> {}], "outputDir") :
     l \in P4Layouts, p \in P4Paginations}

P4Responses ==
  { Resolved(Arr(<<GameA, GameB>>)), Resolved(GameC),
    Resolved(Arr(<<GameD, GameE, GameA>>)), Resolved(Null), Rejected }

RECURSIVE P4SourcesUpTo(_)
P4SourcesUpTo(n) ==
  IF n = 1 THEN {<<r>> : r \in P4Responses}
  ELSE LET shorter == P4SourcesUpTo(n - 1)
       IN  shorter \cup {Append(s, r) : s \in shorter, r \in P4Responses}

InitP4 ==
  /\ config \in P4Configs
  /\ sources \in P4SourcesUpTo(MaxSources)
  /\ pc = "load"
  /\ cursor = 0
  /\ allItems = <<>>
  /\ written = <<>>
  /\ reported = <<>>
  /\ IdleSlug
  /\ IdleRender

NextP4 == P4Load \/ P4Fetch \/ P4Single \/ P4NotFound \/ P4List \/ P4Taxonomies

SpecP4 == InitP4 /\ [][NextP4]_vars

\* a run of either program
InitRuns == InitSite \/ InitP4

NextRuns == NextSite \/ NextP4

SpecRuns == InitRuns /\ [][NextRuns]_vars

---------------------------------------------------------------------------
(* The run of the first program of src/unnamed/part_003, the generator     *)
(* that writes every page as index.html of a directory of its own and      *)
(* hands the templates items with a url: the statements of lines 60-75 and *)
(* generateSite, lines 244-317.                                            *)

\* the directory a path lies in
ParentOf(a) ==
  IF \E i \in 1..Len(a) : a[i] = "/"
  THEN SubSeq(a, 1, (CHOOSE i \in 1..Len(a) :
                       a[i] = "/" /\ \A j \in (i + 1)..Len(a) : a[j] # "/") - 1)
  ELSE <<>>

\* path.join(a, b), which resolves the `..` segments b begins with; the
\* output directory is the empty path, and a path that leaves it keeps its
\* `..`
RECURSIVE PathJoin(_, _)
PathJoin(a, b) ==
  IF Len(b) >= 3 /\ SubSeq(b, 1, 3) = <<".", ".", "/">>
  THEN IF a = <<>> THEN b ELSE PathJoin(ParentOf(a), SubSeq(b, 4, Len(b)))
  ELSE Join(a, b)

\* slugify(input), lines 6-57, called without a registry; it is slugify of
\* ssg.js less the removal of asterisks, which the removal of non-word
\* characters before it leaves nothing to do
P3Slugify(input) == Slugify(StringOf(input), {})

\* item.slug || slugify(item.title || 'untitled'), lines 142 and 262
P3ItemSlug(item) ==
  LET slug == GetProp(item, "slug")
  IN  IF Truthy(slug) THEN StringOf(slug)
      ELSE P3Slugify(OrElse(GetProp(item, "title"), Str(Untitled)))

\* line 254
P3BasePath(cfg) == IF cfg.path # <<>> THEN P3Slugify(Str(cfg.path)) ELSE <<>>

\* slugify(config.path || ''), lines 145 and 232
PathSlug(cfg) == P3Slugify(Str(cfg.path))

\* `/${path.join(a, b)}/`
PrettyUrl(a, b) == <<"/">> \o PathJoin(a, b) \o <<"/">>

\* lines 143-146: itemWithPrettyUrl, a copy of the item that holds url
WithPrettyUrl(cfg, item) ==
  Obj(SetKey(Spread(item), "url", Str(PrettyUrl(PathSlug(cfg), P3ItemSlug(item)))))

\* one call of generateHTML: as File, with the objects handed to a term page
P3File(templateName, outputPath, items, copies, page, term, taxonomy, terms) ==
  [tpl |-> templateName, path |-> outputPath, items |-> items, copies |-> copies,
   page |-> page, term |-> term, taxonomy |-> taxonomy, terms |-> terms]

\* lines 149-158: termsMap after the item at position i is pushed under term
P3PushTerm(termsMap, term, i, itemWithPrettyUrl) ==
  LET termName == OrElse(GetProp(term, "name"), term)
      termSlug == P3Slugify(termName)
  IN  IF \E k \in 1..Len(termsMap) : termsMap[k].slug = termSlug
      THEN [k \in 1..Len(termsMap) |->
              IF termsMap[k].slug = termSlug
              THEN [termsMap[k] EXCEPT !.items = Append(@, i),
                                       !.copies = Append(@, itemWithPrettyUrl)]
              ELSE termsMap[k]]
      ELSE Append(termsMap, [slug |-> termSlug, name |-> termName, items |-> <<i>>,
                             copies |-> <<itemWithPrettyUrl>>])

\* the loop of line 148 over item[taxonomy]
RECURSIVE P3PushTerms(_, _, _, _)
P3PushTerms(termsMap, terms, i, itemWithPrettyUrl) ==
  IF terms = <<>> THEN termsMap
  ELSE P3PushTerms(P3PushTerm(termsMap, Head(terms), i, itemWithPrettyUrl),
                   Tail(terms), i, itemWithPrettyUrl)

\* the loop of lines 140-161 over allItems, from the item at position i on
RECURSIVE P3CollectTerms(_, _, _, _, _)
P3CollectTerms(cfg, termsMap, items, taxonomy, i) ==
  IF i > Len(items) THEN termsMap
  ELSE LET value == GetProp(items[i], taxonomy)
       IN  P3CollectTerms(cfg,
                          IF Truthy(value) /\ IsArray(value)
                          THEN P3PushTerms(termsMap, value.a, i,
                                           WithPrettyUrl(cfg, items[i]))
                          ELSE termsMap,
                          items, taxonomy, i + 1)

P3TermsMap(cfg, items, taxonomy) == P3CollectTerms(cfg, <<>>, items, taxonomy, 1)

\* ItemsAfter with url set on every item that holds the taxonomy
ItemsAfter_Url(cfg, items, taxonomy) ==
  [i \in 1..Len(items) |->
     IF IsArray(GetProp(items[i], taxonomy))
     THEN Obj(SetKey(items[i].o, "url",
                     Str(PrettyUrl(PathSlug(cfg), P3ItemSlug(items[i])))))
     ELSE items[i]]

\* allItems after the loop of lines 140-161: url goes to the copy that
\* {...item} makes, and no statement assigns to an item
ItemsAfter(cfg, items, taxonomy) == items

\* the loop of lines 172-195 over the pages of one term, from `page` on
RECURSIVE P3TermPages(_, _, _, _, _)
P3TermPages(cfg, taxonomyDir, taxonomy, entry, page) ==
  LET itemsPerPage == cfg.itemsPerPage
      totalPages == CeilDiv(Len(entry.items), itemsPerPage)
      begin == (page - 1) * itemsPerPage.n
      end == page * itemsPerPage.n
      outputPath ==
        PathJoin(taxonomyDir,
                 IF page = 1 THEN Join(entry.slug, IndexHtml)
                 ELSE Join(entry.slug, Join(PageDir(page), IndexHtml)))
  IN  IF ~AtMost(page, totalPages) THEN <<>>
      ELSE <<P3File("taxonomy", outputPath, Slice(entry.items, begin, end),
                    Slice(entry.copies, begin, end), page, entry.name, taxonomy, <<>>)>>
           \o P3TermPages(cfg, taxonomyDir, taxonomy, entry, page + 1)

\* lines 164-218: the files of the terms of termsMap from entry k on
RECURSIVE P3TermFiles(_, _, _, _, _)
P3TermFiles(cfg, taxonomyDir, taxonomy, termsMap, k) ==
  IF k > Len(termsMap) THEN <<>>
  ELSE (IF cfg.paginated
        THEN P3TermPages(cfg, taxonomyDir, taxonomy, termsMap[k], 1)
        ELSE <<P3File("taxonomy",
                      PathJoin(taxonomyDir, Join(termsMap[k].slug, IndexHtml)),
                      termsMap[k].items, termsMap[k].copies, 0, termsMap[k].name,
                      taxonomy, <<>>)>>)
       \o P3TermFiles(cfg, taxonomyDir, taxonomy, termsMap, k + 1)

\* lines 228-233: termsList
P3TermsList(cfg, taxonomySlug, termsMap) ==
  [k \in 1..Len(termsMap) |->
     [name |-> termsMap[k].name, slug |-> termsMap[k].slug,
      count |-> Len(termsMap[k].items),
      url |-> PrettyUrl(PathSlug(cfg), Join(taxonomySlug, termsMap[k].slug))]]

\* one pass of the loop of lines 129-241: the files of one taxonomy
P3TaxonomyFiles(cfg, items, basePath, taxonomy) ==
  LET taxonomySlug == P3Slugify(Str(KeyChars(taxonomy)))
      taxonomyDir == PathJoin(basePath, taxonomySlug)
      termsMap == P3TermsMap(cfg, items, taxonomy)
  IN  P3TermFiles(cfg, taxonomyDir, taxonomy, termsMap, 1)
      \o <<P3File("terms", PathJoin(taxonomyDir, IndexHtml), <<>>, <<>>, 0, Undefined,
                  taxonomy, P3TermsList(cfg, taxonomySlug, termsMap))>>

\* lines 60-75: readFileSync throws when a template is not there
P3Load ==
  /\ config.program = "part_003"
  /\ pc = "load"
  /\ pc' = IF TemplateNames \subseteq config.templates THEN "fetch" ELSE "crashed"
  /\ UNCHANGED <<config, sources, cursor, allItems, written, reported>>
  /\ UNCHANGED <<slugVars, renderVars>>

\* lines 248-251, one pass: a rejected fetch is thrown at the await and
\* caught at line 314
P3Fetch ==
  /\ config.program = "part_003"
  /\ pc = "fetch"
  /\ IF cursor < Len(sources)
     THEN LET response == sources[cursor + 1]
          IN  IF response.rejected
              THEN /\ pc' = "failed"
                   /\ reported' = Append(reported, Report("site", <<>>))
                   /\ UNCHANGED <<cursor, allItems>>
              ELSE /\ allItems' = allItems \o Fetched(response.body)
                   /\ cursor' = cursor + 1
                   /\ UNCHANGED <<pc, reported>>
     ELSE /\ pc' = "single"
          /\ cursor' = 0
          /\ UNCHANGED <<allItems, reported>>
  /\ UNCHANGED <<config, sources, written>>
  /\ UNCHANGED <<slugVars, renderVars>>

\* lines 261-271, one pass: the page of an item is index.html of itemDir
P3Single ==
  /\ config.program = "part_003"
  /\ pc = "single"
  /\ IF cursor < Len(allItems)
     THEN LET item == allItems[cursor + 1]
              itemSlug == P3ItemSlug(item)
              itemDir == PathJoin(P3BasePath(config), itemSlug)
              outputPath == PathJoin(itemDir, IndexHtml)
          IN  /\ written' = Append(written,
                     P3File("single", outputPath, <<cursor + 1>>, <<>>, 0, Undefined,
                            "", <<>>))
              /\ cursor' = cursor + 1
              /\ pc' = pc
     ELSE /\ pc' = "notfound"
          /\ cursor' = 0
          /\ written' = written
  /\ UNCHANGED <<config, sources, allItems, reported>>
  /\ UNCHANGED <<slugVars, renderVars>>

\* lines 284-289: 404.html goes to config.outputDir
P3NotFound ==
  /\ config.program = "part_003"
  /\ pc = "notfound"
  /\ written' = IF config.notFound
                THEN Append(written, P3File("404", <<"4", "0", "4">> \o DotHtml,
                                            <<>>, <<>>, 0, Undefined, "", <<>>))
                ELSE written
  /\ pc' = "list"
  /\ UNCHANGED <<config, sources, cursor, allItems, reported>>
  /\ UNCHANGED <<slugVars, renderVars>>

\* lines 292-308: one pass of the page loop, or the one unpaginated page
P3List ==
  /\ config.program = "part_003"
  /\ pc = "list"
  /\ IF config.paginated
     THEN LET itemsPerPage == config.itemsPerPage
              totalPages == CeilDiv(Len(allItems), itemsPerPage)
              filenamePattern ==
                IF config.filenamePattern # <<>> THEN config.filenamePattern
                ELSE PageStarHtml
              page == cursor + 1
              pageItems == Slice(Positions(allItems), (page - 1) * itemsPerPage.n,
                                 page * itemsPerPage.n)
              outputPath ==
                PathJoin(P3BasePath(config),
                         IF page = 1 THEN IndexHtml
                         ELSE ReplaceStar(filenamePattern, page))
          IN  IF AtMost(page, totalPages)
              THEN /\ page <= MaxPages
                   /\ written' = Append(written,
                          P3File("list", outputPath, pageItems, <<>>, page, Undefined,
                                 "", <<>>))
                   /\ cursor' = page
                   /\ pc' = pc
              ELSE /\ pc' = "taxonomies"
                   /\ cursor' = 0
                   /\ written' = written
     ELSE /\ written' = Append(written,
                 P3File("list", PathJoin(P3BasePath(config), IndexHtml),
                        Positions(allItems), <<>>, 0, Undefined, "", <<>>))
          /\ pc' = "taxonomies"
          /\ cursor' = 0
  /\ UNCHANGED <<config, sources, allItems, reported>>
  /\ UNCHANGED <<slugVars, renderVars>>

\* line 311 and lines 126-242: one pass of the loop over config.taxonomies
P3Taxonomies ==
  /\ config.program = "part_003"
  /\ pc = "taxonomies"
  /\ IF cursor < Len(config.taxonomies)
     THEN LET taxonomy == config.taxonomies[cursor + 1]
          IN  /\ written' = written \o P3TaxonomyFiles(config, allItems,
                                                       P3BasePath(config), taxonomy)
              /\ allItems' = ItemsAfter(config, allItems, taxonomy)
              /\ cursor' = cursor + 1
              /\ pc' = pc
     ELSE /\ pc' = "done"
          /\ cursor' = 0
          /\ UNCHANGED <<written, allItems>>
  /\ UNCHANGED <<config, sources, reported>>
  /\ UNCHANGED <<slugVars, renderVars>>

\* the items of the runs of part_003: one titled as a taxonomy is named,
\* one whose own slug is no normalized slug and leads out of the directory
GameG ==
  Obj(<< <<"title", Str(<<"G", "e", "n", "r", "e", "s">>)>>,
         <<"genres", Arr(<<Str(Action)>>)>> >>)
GameH ==
  Obj(<< <<"slug", Str(<<".", ".", "/", "U", "p">>)>>, <<"tags", Arr(<<Str(Action)>>)>> >>)

P3Responses ==
  { Resolved(Arr(<<GameA, GameD>>)), Resolved(GameG), Resolved(Arr(<<GameF, GameH>>)),
    Resolved(Arr(<<>>)), Rejected }

RECURSIVE P3SourcesUpTo(_)
P3SourcesUpTo(n) ==
  IF n = 1 THEN {<<r>> : r \in P3Responses}
  ELSE LET shorter == P3SourcesUpTo(n - 1)
       IN  shorter \cup {Append(s, r) : s \in shorter, r \in P3Responses}

P3Paginations ==
  {[paginated |-> FALSE, itemsPerPage |-> Undefined, filenamePattern |-> <<>>]}
  \cup
  {[paginated |-> TRUE, itemsPerPage |-> k, filenamePattern |-> f] :
     k \in {Num(0 - 1), Num(1), Num(2)}, f \in {<<>>, <<"p", "*">> \o DotHtml}}

P3Configs ==
  {Config("part_003", TemplateNames, l, p, t) :
     l \in Layouts, p \in P3Paginations, t \in TaxonomyLists}
  \cup
  {Config("part_003", TemplateNames \ {"terms"}, l, p, <<>>) :
     l \in Layouts, p \in {q \in P3Paginations : ~q.paginated}}

InitP3 ==
  /\ config \in P3Configs
  /\ sources \in P3SourcesUpTo(MaxSources)
  /\ pc = "load"
  /\ cursor = 0
  /\ allItems = <<>>
  /\ written = <<>>
  /\ reported = <<>>
  /\ IdleSlug
  /\ IdleRender

NextP3 == P3Load \/ P3Fetch \/ P3Single \/ P3NotFound \/ P3List \/ P3Taxonomies

SpecP3 == InitP3 /\ [][NextP3]_vars

---------------------------------------------------------------------------
(* Properties of the slug assigner.                                        *)

\* C1: every slug returned by slugify has at least 2 and at most 30
\* characters, also when a uniqueness suffix -N was appended.
C1_SlugLength ==
  \A i \in 1..Len(returned) :
    Len(returned[i]) >= MinSlugLen /\ Len(returned[i]) <= MaxSlugLen

\* a call whose candidate was taken and whose suffixed result, with a
\* two-digit counter, is exactly 30 characters long
C1_Witness ==
  /\ calls > 0
  /\ Candidate(label) \in before
  /\ result = Rep("a", 27) \o <<"-", "1", "0">>
  /\ Len(result) = MaxSlugLen

\* C2: every returned slug was absent from the registry when its call began
\* and is present afterwards, so the slugs returned against one registry are
\* pairwise distinct (and none was in the registry's initial content).
C2_FreshAndRegistered ==
  /\ calls > 0 => result \notin before /\ result \in registry
  /\ \A i \in 1..Len(returned) : returned[i] \notin initial /\ returned[i] \in registry
  /\ \A i, j \in 1..Len(returned) : i # j => returned[i] # returned[j]

\* two calls with labels of the same candidate against a registry that
\* already held the candidate
C2_Witness ==
  /\ calls >= 2
  /\ Candidate(inputs[1]) = Candidate(inputs[2])
  /\ Candidate(inputs[1]) \in initial

\* the candidate c cut to its longest prefix that leaves room for -N within
\* 30 characters and does not end in a hyphen, followed by -N
CutForm(c, n) ==
  LET suffix == <<"-">> \o Digits(n)
      fits   == {k \in 0..Len(c) : /\ k + Len(suffix) <= MaxSlugLen
                                   /\ ~EndsWithHyphen(SubSeq(c, 1, k))}
      k      == CHOOSE m \in fits : \A o \in fits : o <= m
  IN  SubSeq(c, 1, k) \o suffix

\* the suffixed forms -2 .. -k of the candidate c differ from c: c is not
\* a text of full length that ends as a suffix does
SuffixesLeaveCandidate(c, k) == \A n \in 2..k : CutForm(c, n) # c

\* the results of assigning one label to an empty registry again and again
\* are c, c-2, ..., c-k, cut to fit
CountsUp ==
  \A i \in 1..Len(returned) :
    LET c == Candidate(inputs[1])
        literal == c \o <<"-">> \o Digits(i)
    IN  /\ i = 1 => returned[i] = c
        /\ i > 1 => returned[i] = CutForm(c, i)
        /\ i > 1 /\ Len(literal) <= MaxSlugLen => returned[i] = literal

\* the call returns the candidate when it is free, and otherwise its cut
\* form with the smallest N >= 2 that is free
SmallestFree ==
  /\ calls > 0 /\ Candidate(label) \in before =>
       \E n \in 2..(Cardinality(before) + 2) :
         /\ result = CutForm(Candidate(label), n)
         /\ result \notin before
         /\ \A m \in 2..(n - 1) : CutForm(Candidate(label), m) \in before
  /\ calls > 0 /\ Candidate(label) \notin before => result = Candidate(label)

\* C3 as the specification states it: when the candidate c is already
\* registered, the call returns c (cut to fit) followed by -N for the
\* smallest N >= 2 whose suffixed string is free; the same label assigned k
\* times to an empty registry yields c, c-2, ..., c-k in that order.
C3_CountsUpForEveryLabel ==
  /\ SmallestFree
  /\ initial = {} /\ (\A i \in 1..Len(inputs) : inputs[i] = inputs[1]) => CountsUp

\* C3, amended: when the candidate c is already registered, the call
\* returns c (cut to fit) followed by -N for the smallest N >= 2 whose
\* suffixed string is free; the same label assigned k times to an empty
\* registry yields c, c-2, ..., c-k in that order, provided that no cut
\* form c-2 .. c-k is c itself.
C3_SmallestFreeSuffix ==
  /\ SmallestFree
  /\ (/\ initial = {}
      /\ \A i \in 1..Len(inputs) : inputs[i] = inputs[1]
      /\ calls > 0 => SuffixesLeaveCandidate(Candidate(inputs[1]), Len(inputs))) => CountsUp

\* the third assignment of "cats" to an initially empty registry returned
\* cats-3 after cats and cats-2
C3_Witness ==
  /\ initial = {}
  /\ Len(returned) >= 3
  /\ inputs[1] = Cats /\ inputs[2] = Cats /\ inputs[3] = Cats
  /\ returned[2] = Cats \o <<"-", "2">>
  /\ returned[3] = Cats \o <<"-", "3">>

IsSlugChar(c) == c \in LowerLetters \cup DigitChars \cup {"_", "-"}

\* C4: the returned slug holds only lowercase letters, digits, underscores
\* and hyphens, neither starts nor ends with a hyphen and has no two
\* consecutive hyphens; "  Hello   World!! " on an empty registry gives
\* "hello-world".
C4_SlugShape ==
  calls > 0 =>
    /\ \A i \in 1..Len(result) : IsSlugChar(result[i])
    /\ result[1] # "-" /\ result[Len(result)] # "-"
    /\ \A i \in 1..(Len(result) - 1) : ~(result[i] = "-" /\ result[i + 1] = "-")
    /\ (label = HelloWorld /\ before = {} =>
          result = <<"h", "e", "l", "l", "o", "-", "w", "o", "r", "l", "d">>)

\* C4 without the demand that letters are lowercase
C4_ShapeAnyCase ==
  calls > 0 =>
    /\ \A i \in 1..Len(result) : IsWordChar(result[i]) \/ result[i] = "-"
    /\ result[1] # "-" /\ result[Len(result)] # "-"
    /\ \A i \in 1..(Len(result) - 1) : ~(result[i] = "-" /\ result[i + 1] = "-")
    /\ (label = HelloWorld /\ before = {} =>
          result = <<"h", "e", "l", "l", "o", "-", "w", "o", "r", "l", "d">>)

---------------------------------------------------------------------------
(* Properties of the template renderer.                                    *)

\* the template is the block alone, and it has been rendered
Alone(block) == rendered /\ pieces = <<<<>>, block, <<>>>>

\* the text of the `name` field of an element, empty when it has none
NameOf(elem) ==
  LET v == GetProp(elem, "name") IN IF v.t = "string" THEN v.s ELSE <<>>

\* what C5 says one iteration of ExampleBody and of FirstLastBody inserts
\* for the element at 0-based position i of k
ExampleText(elem, i) == NameOf(elem) \o <<Chr("-")>> \o Text(Digits(i)) \o <<Chr(";")>>
FirstLastText(elem, i, k) ==
  (IF i = 0 THEN <<Chr("F")>> ELSE <<>>) \o NameOf(elem)
    \o (IF i = k - 1 THEN <<Chr("L")>> ELSE <<>>)

RECURSIVE ConcatExample(_, _)
ConcatExample(a, i) ==
  IF i >= Len(a) THEN <<>> ELSE ExampleText(a[i + 1], i) \o ConcatExample(a, i + 1)

RECURSIVE ConcatFirstLast(_, _)
ConcatFirstLast(a, i) ==
  IF i >= Len(a) THEN <<>>
  ELSE FirstLastText(a[i + 1], i, Len(a)) \o ConcatFirstLast(a, i + 1)

\* C5: for a sequence of k elements, {{#each p}}body{{/each}} renders to the
\* concatenation in element order of body rendered per element, where
\* {{@index}} inserts the 0-based position, @first is true only at position
\* 0 and @last only at position k-1; for items [{name:a},{name:b}],
\* {{#each items}}{{name}}-{{@index}};{{/each}} renders to "a-0;b-1;".
C5_EachIndexed ==
  LET items == GetNestedValue(data, <<"items">>)
  IN  /\ Alone(EachBlock(<<"items">>, ExampleBody)) /\ IsArray(items) =>
           output = ConcatExample(items.a, 0)
      /\ Alone(EachBlock(<<"items">>, ExampleBody)) /\ items = Arr(<<ItemA, ItemB>>) =>
           output = Text(<<"a", "-", "0", ";", "b", "-", "1", ";">>)
      /\ Alone(EachBlock(<<"items">>, FirstLastBody)) /\ IsArray(items) =>
           output = ConcatFirstLast(items.a, 0)

\* the part of C5 the code keeps: order, one rendering per element, and
\* @first and @last
C5_OrderFirstLast ==
  LET items == GetNestedValue(data, <<"items">>)
  IN  Alone(EachBlock(<<"items">>, FirstLastBody)) /\ IsArray(items) =>
        output = ConcatFirstLast(items.a, 0)

\* C6: {{p}} renders to the textual form of the value p resolves to when
\* that is a string, a number or a boolean, and renders to empty text only
\* when p is unresolved.
C6_PlainSubstitution ==
  \A path \in VarPaths :
    Alone(<<Var(path)>>) =>
      LET value == GetNestedValue(data, path)
      IN  /\ value.t \in {"string", "number", "boolean"} => output = ToText(value)
          /\ value.t \in {"number", "boolean"} => output # <<>>

\* what C7 calls truthy: a sequence when it has an element; another value
\* when it is not absent, not empty text, not zero and not false
ClaimTruthy(value) ==
  CASE value.t = "array"     -> Len(value.a) > 0
    [] value.t = "undefined" -> FALSE
    [] value.t = "null"      -> FALSE
    [] value.t = "string"    -> Len(value.s) > 0
    [] value.t = "number"    -> value.n # 0
    [] value.t = "boolean"   -> value.b
    [] OTHER                 -> TRUE

\* C7: {{#if p}}body{{/if}} renders body when p resolves to a non-empty
\* sequence or to another value that is not absent, empty or zero, and
\* renders empty text otherwise (an object, also one without entries, counts
\* as not empty); an empty sequence gives empty text and a one-element
\* sequence gives body.
C7_IfTruthiness ==
  \A path \in CondPaths, body \in CondBodies :
    Alone(IfBlock(path, body)) =>
      LET value == GetNestedValue(data, path)
      IN  /\ output = IF ClaimTruthy(value) THEN RenderTemplate(body, data) ELSE <<>>
          /\ body = Yes => output = IF ClaimTruthy(value) THEN Yes ELSE <<>>
          /\ value = Arr(<<>>) => output = <<>>
          /\ body = Yes /\ IsArray(value) /\ Len(value.a) = 1 => output = Yes

\* {{#if flag}}yes{{/if}} rendered to empty text against a context whose
\* flag is the empty sequence
C7_Witness ==
  /\ Alone(IfBlock(<<"flag">>, Yes))
  /\ GetNestedValue(data, <<"flag">>) = Arr(<<>>)
  /\ output = <<>>

\* C8: {{#unless p}}body{{/unless}} renders body exactly when
\* {{#if p}}body{{/if}} renders empty text, by the truthiness rule of #if:
\* exactly one of the two blocks renders body (for an empty sequence, #unless).
C8_UnlessComplementsIf ==
  \A path \in CondPaths :
    Alone(UnlessBlock(path, Yes)) =>
      /\ (output = Yes) <=> (RenderTemplate(IfBlock(path, Yes), data) = <<>>)
      /\ output = IF ClaimTruthy(GetNestedValue(data, path)) THEN <<>> ELSE Yes

\* what C9 says NestedBody inserts for one outer element: the names of the
\* elements of the sequence at `tags` of that element, between brackets
RECURSIVE ConcatNames(_)
ConcatNames(a) == IF a = <<>> THEN <<>> ELSE NameOf(Head(a)) \o ConcatNames(Tail(a))

NestedText(elem) ==
  LET tags == GetProp(elem, "tags")
  IN  <<Chr("[")>> \o (IF IsArray(tags) THEN ConcatNames(tags.a) ELSE <<>>) \o <<Chr("]")>>

RECURSIVE ConcatNested(_)
ConcatNested(a) == IF a = <<>> THEN <<>> ELSE NestedText(Head(a)) \o ConcatNested(Tail(a))

\* what C9 says FlagBody inserts for one outer element: y when the element's
\* own flag is truthy
RECURSIVE ConcatFlag(_)
ConcatFlag(a) ==
  IF a = <<>> THEN <<>>
  ELSE (IF ClaimTruthy(GetProp(Head(a), "flag")) THEN <<Chr("y")>> ELSE <<>>)
         \o ConcatFlag(Tail(a))

\* C9: an {{#each}} inside the body of an {{#each}} is rendered once per
\* outer element over the sequence at its path in that element's context,
\* the outer block ending at its own {{/each}}; an {{#if}} inside a loop
\* body tests the per-iteration context.
C9_NestedEach ==
  LET items == GetNestedValue(data, <<"items">>)
  IN  /\ Alone(EachBlock(<<"items">>, NestedBody)) /\ IsArray(items) =>
           output = ConcatNested(items.a)
      /\ Alone(EachBlock(<<"items">>, FlagBody)) /\ IsArray(items) =>
           output = ConcatFlag(items.a)

\* the part of C9 the code keeps: {{#if}} in a loop body tests the element
C9_IfInLoop ==
  LET items == GetNestedValue(data, <<"items">>)
  IN  Alone(EachBlock(<<"items">>, FlagBody)) /\ IsArray(items) =>
        output = ConcatFlag(items.a)

\* E is {{p}} or {{#if p}}..{{/if}} with a path that has a missing segment,
\* or an {{#each p}}..{{/each}} whose path resolves to no sequence
Degrades(E, root) ==
  \/ \E path \in VarPaths :
       E = <<Var(path)>> /\ GetNestedValue(root, path).t = "undefined"
  \/ \E path \in CondPaths, body \in CondBodies :
       E = IfBlock(path, body) /\ GetNestedValue(root, path).t = "undefined"
  \/ \E path \in EachPaths, body \in EachBodies :
       E = EachBlock(path, body) /\ ~IsArray(GetNestedValue(root, path))

\* C10: an expression with a missing path segment, or an {{#each}} over a
\* value that is no sequence, contributes empty text for itself only:
\* render(A E B, ctx) is render(A, ctx) followed by render(B, ctx).
C10_DegradesToEmpty ==
  rendered /\ Degrades(pieces[2], data) =>
    output = RenderTemplate(pieces[1], data) \o RenderTemplate(pieces[3], data)

\* C10 for the expressions E whose loop body is not empty and holds no
\* {{#each}} block
C10_FlatExpressions ==
  rendered /\ Degrades(pieces[2], data)
    /\ (\A path \in EachPaths : pieces[2] \notin
           {EachBlock(path, NestedBody), EachBlock(path, <<>>)}) =>
    output = RenderTemplate(pieces[1], data) \o RenderTemplate(pieces[3], data)

\* {{#each flag}}{{/each}}, with flag no sequence, followed by the loop
\* {{#each items}}{{name}}{{/each}} over a sequence with elements
C10_EmptyBodyCase ==
  /\ rendered
  /\ pieces = <<<<>>, EachBlock(<<"flag">>, <<>>), EachBlock(<<"items">>, <<Var(<<"name">>)>>)>>
  /\ GetNestedValue(data, <<"flag">>) = Num(1)
  /\ GetNestedValue(data, <<"items">>) = Arr(<<ItemA, ItemB>>)
  /\ output = <<>>

---------------------------------------------------------------------------
(* Properties of repeated rendering.                                       *)

---------------------------------------------------------------------------
(* Properties of a run of src/ssg.js.                                      *)

\* the files written from one template, in the order of writing
FilesOf(templateName) == SelectSeq(written, LAMBDA f : f.tpl = templateName)

\* the page loop of generateSite has been left
ListEnded == pc \in {"taxonomies", "done"}

\* itemsPerPage is a whole number of at least 1
Paged == config.paginated /\ config.itemsPerPage.t = "number" /\ config.itemsPerPage.n >= 1

\* the least number of pages of k items each that hold n items
PagesFor(n, k) == CHOOSE m \in 0..n : m * k >= n /\ (m = 0 \/ (m - 1) * k < n)

RECURSIVE Flatten(_)
Flatten(seqs) == IF seqs = <<>> THEN <<>> ELSE Head(seqs) \o Flatten(Tail(seqs))

\* C12: for a list of n items and itemsPerPage >= 1 the run emits exactly
\* ceil(n / itemsPerPage) listing pages, none when n = 0; page p holds the
\* items (p-1)*itemsPerPage .. p*itemsPerPage - 1 in order, the pages put
\* together give the list, every page but the last holds itemsPerPage items
\* and the last holds between 1 and itemsPerPage.
C12_PagePartition ==
  (config.program = "ssg.js" /\ ListEnded /\ Paged) =>
    LET n == Len(allItems)
        k == config.itemsPerPage.n
        pages == FilesOf("list")
        total == Len(pages)
    IN  /\ total = PagesFor(n, k)
        /\ n = 0 => total = 0
        /\ \A p \in 1..total :
             /\ pages[p].page = p
             /\ pages[p].items =
                  [i \in 1..(IF p * k <= n THEN k ELSE n - (p - 1) * k) |-> (p - 1) * k + i]
        /\ Flatten([p \in 1..total |-> pages[p].items]) = Positions(allItems)
        /\ \A p \in 1..(total - 1) : Len(pages[p].items) = k
        /\ total > 0 => Len(pages[total].items) \in 1..k

\* 25 items at 10 per page: pages of 10, 10 and 5
C12_Witness ==
  /\ config.program = "ssg.js" /\ pc = "done"
  /\ Len(allItems) = 25
  /\ config.paginated /\ config.itemsPerPage = Num(10)
  /\ [p \in 1..Len(FilesOf("list")) |-> Len(FilesOf("list")[p].items)] = <<10, 10, 5>>

\* C13: when itemsPerPage is 0 or negative the planner treats the whole
\* list as one unpaginated page: exactly one listing page is emitted and it
\* holds every item.
C13_OnePageWhenNotPositive ==
  ( /\ config.program = "ssg.js"
    /\ config.paginated
    /\ config.itemsPerPage.t = "number" /\ config.itemsPerPage.n <= 0
    /\ Len(allItems) > 0
    /\ (ListEnded \/ FilesOf("list") # <<>>) ) =>
    /\ Len(FilesOf("list")) = 1
    /\ FilesOf("list")[1].items = Positions(allItems)

\* the directory of the listing a file is a page of: the base path for the
\* main list, the directory of the term below that of the taxonomy for a term
RouteOf(f) ==
  IF f.tpl = "list" THEN BasePath(config)
  ELSE Join(Join(BasePath(config), SlugifyAlone(Str(KeyChars(f.taxonomy)))),
            SlugifyAlone(f.term))

\* the configured pattern of the main list, or its default
PatternOf(cfg) == IF cfg.filenamePattern # <<>> THEN cfg.filenamePattern ELSE PageStarHtml

\* outputPath is the pattern below route with the digits of p in the place
\* of its first asterisk
Substituted(outputPath, route, pattern, p) ==
  \E i \in 1..Len(pattern) :
    /\ pattern[i] = "*"
    /\ \A j \in 1..(i - 1) : pattern[j] # "*"
    /\ outputPath = Join(route, SubSeq(pattern, 1, i - 1) \o Digits(p)
                                  \o SubSeq(pattern, i + 1, Len(pattern)))

\* C14: in every paginated listing, the main list and every term, page 1
\* is written to index.html in the directory of the listing and every page
\* p >= 2 to a page-numbered path holding p, <route>/page-p/index.html or
\* the configured pattern with p in it; no page p >= 2 is written to the
\* index path and page 1 is written to no page-numbered path.
C14_IndexAndNumberedPaths ==
  config.program = "ssg.js" =>
    \A n \in DOMAIN written :
      LET f == written[n]
          index == Join(RouteOf(f), IndexHtml)
      IN  (f.tpl \in {"list", "taxonomy"} /\ f.page >= 1) =>
            /\ f.page = 1 => f.path = index
            /\ f.page >= 2 =>
                 /\ f.path # index
                 /\ IF f.tpl = "list"
                    THEN Substituted(f.path, RouteOf(f), PatternOf(config), f.page)
                    ELSE f.path = Join(RouteOf(f), Join(PageDir(f.page), IndexHtml))

\* second pages of the main list, under a configured pattern, and of a term
C14_Witness ==
  /\ config.program = "ssg.js" /\ pc = "done"
  /\ config.filenamePattern # <<>> /\ config.path # <<>>
  /\ \E n \in DOMAIN written : written[n].tpl = "list" /\ written[n].page = 2
  /\ \E n \in DOMAIN written : written[n].tpl = "taxonomy" /\ written[n].page = 2

\* the label of a term entry of an item: its name when it is an object
LabelOf(term) == OrElse(GetProp(term, "name"), term)

\* the references the items make to terms of a taxonomy, item by item in
\* the order supplied: the position of the item, the label and its slug
Occurrences(taxonomy) ==
  Flatten([i \in 1..Len(allItems) |->
    LET value == GetProp(allItems[i], taxonomy)
    IN  IF value.t = "array"
        THEN [j \in 1..Len(value.a) |->
                [item |-> i, label |-> LabelOf(value.a[j]),
                 slug |-> SlugifyAlone(LabelOf(value.a[j]))]]
        ELSE <<>>])

\* the first reference to a slug
FirstOf(occ, slug) ==
  CHOOSE k \in 1..Len(occ) :
    occ[k].slug = slug /\ \A j \in 1..(k - 1) : occ[j].slug # slug

\* the positions of the items referring to a slug, in order
ItemsOf(occ, slug) ==
  LET refs == SelectSeq(occ, LAMBDA o : o.slug = slug)
  IN  [k \in 1..Len(refs) |-> refs[k].item]

\* the items of the pages written for a term of a taxonomy, in order
TermItems(taxonomy, name) ==
  LET pages == SelectSeq(written, LAMBDA f :
                 f.tpl = "taxonomy" /\ f.taxonomy = taxonomy /\ f.term = name)
  IN  Flatten([k \in 1..Len(pages) |-> pages[k].items])

\* C15: a taxonomy has one term for each distinct slug its labels derive;
\* labels of one slug form one term named by the label seen first; the
\* terms stand in the order of first appearance and the items of a term in
\* the order supplied; items tagged [action, retro] and [retro] give the
\* terms action, of one item, and retro, of two.
C15_TermsByFirstAppearance ==
  config.program = "ssg.js" =>
    \A n \in DOMAIN written :
      written[n].tpl = "terms" =>
        LET terms == written[n].terms
            occ == Occurrences(written[n].taxonomy)
        IN  /\ \A a, b \in DOMAIN terms : a # b => terms[a].slug # terms[b].slug
            /\ {terms[a].slug : a \in DOMAIN terms} = {occ[k].slug : k \in DOMAIN occ}
            /\ \A a \in DOMAIN terms :
                 /\ terms[a].name = occ[FirstOf(occ, terms[a].slug)].label
                 /\ terms[a].count = Len(ItemsOf(occ, terms[a].slug))
                 /\ (~config.paginated \/ Paged) =>
                      TermItems(written[n].taxonomy, terms[a].name)
                        = ItemsOf(occ, terms[a].slug)
            /\ \A a, b \in DOMAIN terms :
                 a < b => FirstOf(occ, terms[a].slug) < FirstOf(occ, terms[b].slug)
            /\ (allItems = <<GameA, GameB>> /\ written[n].taxonomy = "genres") =>
                 terms = << [name |-> Str(Action), slug |-> Action, count |-> 1],
                            [name |-> Str(Retro), slug |-> Retro, count |-> 2] >>

\* the labels retro and {name: 'Retro'} form one term, named retro, of the
\* three items in order; action, seen first, stands before it
C15_Witness ==
  /\ config.program = "ssg.js" /\ pc = "done" /\ ~config.paginated
  /\ allItems = <<GameA, GameB, GameC>>
  /\ \E n \in DOMAIN written :
       /\ written[n].tpl = "terms" /\ written[n].taxonomy = "genres"
       /\ written[n].terms = << [name |-> Str(Action), slug |-> Action, count |-> 2],
                                [name |-> Str(Retro), slug |-> Retro, count |-> 3] >>
  /\ TermItems("genres", Str(Retro)) = <<1, 2, 3>>

\* C16: within one run the slugs given to distinct items are pairwise
\* distinct, also when the titles are equal or normalise to one text, so
\* that no two single pages are written to the same output path.
C16_DistinctItemPaths ==
  config.program = "ssg.js" =>
    \A m, n \in DOMAIN written :
      (m # n /\ written[m].tpl = "single" /\ written[n].tpl = "single") =>
        written[m].path # written[n].path

---------------------------------------------------------------------------
(* Properties of a run of either program.                                  *)

\* what the sources give, in the order of config.data: an array gives its
\* elements in order, one object gives itself, a source that failed or
\* returned nothing gives no item
RECURSIVE Results(_)
Results(responses) ==
  IF responses = <<>> THEN <<>>
  ELSE LET r == Head(responses)
       IN  (IF r.rejected \/ ~Truthy(r.body) THEN <<>>
            ELSE IF r.body.t = "array" THEN r.body.a ELSE <<r.body>>)
           \o Results(Tail(responses))

\* C17: no page is rendered or written before the retrieval of every
\* configured data source has completed, and the item list all templating
\* uses is the results of the sources put together in configuration order,
\* an array giving its elements in order and one object giving one item.
C17_RetrievalBeforePages ==
  config.program \in {"ssg.js", "part_004"} =>
    /\ written # <<>> => pc \notin {"load", "fetch"}
    /\ pc \in {"single", "notfound", "list", "taxonomies", "done"} =>
         allItems = Results(sources)
    /\ pc \in {"load", "fetch"} =>
         allItems = Results(SubSeq(sources, 1, cursor))

\* an array of three and one object: four items in that order, pages written
C17_Witness ==
  /\ sources = <<Resolved(Arr(<<GameD, GameE, GameA>>)), Resolved(GameC)>>
  /\ allItems = <<GameD, GameE, GameA, GameC>>
  /\ pc = "done"
  /\ \E n \in DOMAIN written : written[n].tpl = "list" /\ written[n].items = <<1, 2, 3, 4>>

---------------------------------------------------------------------------
(* Properties of a run of src/unnamed/part_004.                            *)

\* config.json is whole and the four templates every run needs are there
Loadable ==
  config.defect = "none" /\ {"base", "single", "list", "pagination"} \subseteq config.templates

\* every item has its page
AllItemPages ==
  \A i \in 1..Len(allItems) :
    \E n \in DOMAIN written : written[n].tpl = "single" /\ written[n].items = <<i>>

\* the main list has its pages: one page of every item without pagination,
\* the least number of pages that hold the items with it
AllListPages ==
  LET pages == FilesOf("list")
  IN  IF ~config.paginated
      THEN Len(pages) = 1 /\ pages[1].items = Positions(allItems)
      ELSE /\ Len(pages) = PagesFor(Len(allItems), config.itemsPerPage.n)
           /\ Flatten([p \in 1..Len(pages) |-> pages[p].items]) = Positions(allItems)

\* C18: the absence of an optional template, taxonomy or terms, never
\* makes the run fail: no term page is written without the taxonomy
\* template and no terms index without the terms template, nothing is
\* reported for them, and every item page and listing page is still emitted.
C18_OptionalTemplates ==
  (config.program = "part_004" /\ Loadable) =>
    /\ "taxonomy" \notin config.templates => FilesOf("taxonomy") = <<>>
    /\ "terms" \notin config.templates => FilesOf("terms") = <<>>
    /\ pc = "exit1" =>
         Results(sources) = <<>> /\ reported[Len(reported)] = Report("site", <<>>)
    /\ (config.reads = {} /\ config.denied = {}) =>
         \A n \in DOMAIN reported : reported[n].what = "source"
                                     \/ reported[n] = Report("site", <<>>)
    /\ (pc = "done" /\ config.reads = {} /\ config.denied = {}
          /\ (~config.paginated \/ Paged)) =>
         AllItemPages /\ AllListPages

\* a run over items with genres under a theme without taxonomy.html
C18_Witness ==
  /\ config.program = "part_004" /\ pc = "done"
  /\ "taxonomy" \notin config.templates /\ "terms" \in config.templates
  /\ config.taxonomies = <<"genres">>
  /\ allItems = <<GameA, GameB>>
  /\ config.paginated /\ config.itemsPerPage = Num(2)
  /\ AllItemPages /\ AllListPages
  /\ reported = <<>>

\* itemsPerPage is configured and is no number of at least 1
InvalidItemsPerPage == config.paginated /\ ~Paged

\* C19: a defect of the configuration, a required template that is missing
\* or an itemsPerPage that is not positive or not a number, is fatal at the
\* start of the run: the run stops before any page is written, and no run
\* writes pages first and fails or misbehaves for the defect afterwards.
C19_DefectStopsRun ==
  (config.program = "part_004" /\ (~Loadable \/ InvalidItemsPerPage)) =>
    written = <<>>

\* the part of C19 the code keeps: a missing field of config.json or a
\* missing required template ends the run at once with nothing written
C19_LoadDefectsFatal ==
  (config.program = "part_004" /\ ~Loadable) =>
    written = <<>> /\ pc \in {"load", "exit1"}

\* the call of generateHTML for the page of the item at position i
ItemFile(i) ==
  File("single", Join(P4BasePath(config), P4ItemSlug(allItems[i]) \o DotHtml),
       <<i>>, 0, Undefined, "", <<>>)

\* the positions of the items whose page cannot be generated
FailingItems == {i \in 1..Len(allItems) : Throws(config, allItems, ItemFile(i))}

\* the errors logged for single files
FileReports == SelectSeq(reported, LAMBDA r : r.what = "file")

\* every item that names terms of a taxonomy stands on a page of a term
AllTermPages ==
  \A t \in 1..Len(config.taxonomies) :
    \A i \in 1..Len(allItems) :
      LET value == GetProp(allItems[i], config.taxonomies[t])
      IN  (value.t = "array" /\ value.a # <<>>) =>
            \E n \in DOMAIN written :
              /\ written[n].tpl = "taxonomy"
              /\ written[n].taxonomy = config.taxonomies[t]
              /\ \E j \in 1..Len(written[n].items) : written[n].items[j] = i

\* C20: when the page of one item cannot be generated, the template
\* failing on it or the file not being writable, the failure is reported
\* for that item alone and the run goes on: the page of every other item,
\* the listing pages and the taxonomy pages are generated all the same.
C20_ItemFailureContained ==
  (config.program = "part_004" /\ Loadable) =>
    /\ pc = "exit1" => FileReports = <<>>
    /\ pc = "done" =>
         LET files == {written[n] : n \in DOMAIN written}
             errors == {reported[n] : n \in DOMAIN reported}
             failing == FailingItems
         IN  /\ \A i \in 1..Len(allItems) :
                  LET file == ItemFile(i)
                  IN  IF i \in failing
                      THEN /\ Report("file", file.path) \in errors
                           /\ \A f \in files : f.tpl = "single" => f.items # <<i>>
                      ELSE file \in files
             /\ Len(FileReports) = Cardinality(failing)
    /\ (pc = "done" /\ (~config.paginated \/ Paged)) =>
         /\ AllListPages
         /\ "taxonomy" \in config.templates => AllTermPages

\* the template reads `title`, the second of four items has none: its
\* page alone is missing and reported, the list and the terms are whole
C20_Witness ==
  /\ config.program = "part_004" /\ pc = "done"
  /\ config.reads = {"title"}
  /\ allItems = <<GameC, GameD, GameE, GameA>>
  /\ FailingItems = {2}
  /\ reported = <<Report("file", ItemFile(2).path)>>
  /\ Len(FilesOf("single")) = 3
  /\ config.paginated /\ config.itemsPerPage = Num(2) /\ AllListPages
  /\ config.taxonomies = <<"genres">> /\ "taxonomy" \in config.templates
  /\ AllTermPages

---------------------------------------------------------------------------
(* Further properties of the slug assigner.                                *)

\* the letters, digits and underscores of a label that the cleanup keeps
Survivors(input) == SelectSeq(NormalizeNFKD(ToLowerCase(input)), IsWordChar)

\* C21: a label of which no letter, digit or underscore survives the
\* normalization has the candidate "untitled", and a label normalized to
\* the single character c has the candidate c followed by the digit 0:
\* "x" on an empty registry gives "x0".
C21_FallbackAndPadding ==
  calls > 0 =>
    LET kept == Survivors(label)
    IN  /\ (kept = <<>> /\ Untitled \notin before) => result = Untitled
        /\ (Len(kept) = 1 /\ kept \o <<"0">> \notin before) => result = kept \o <<"0">>
        /\ (label = <<"x">> /\ before = {}) => result = <<"x", "0">>

\* "x" on an empty registry
C21_Witness ==
  calls > 0 /\ label = <<"x">> /\ before = {} /\ result = <<"x", "0">>

\* a label of punctuation only
C21_UntitledReached ==
  calls > 0 /\ label = <<"!", "-", " ">> /\ before = {} /\ result = Untitled

---------------------------------------------------------------------------
(* Further properties of a run of src/ssg.js.                              *)

\* how often a value stands in a sequence
CountIn(seq, value) == Cardinality({k \in 1..Len(seq) : seq[k] = value})

\* C22: the grouping by term does not deduplicate: an item that lists one
\* term twice stands twice in the item list of that term, so that the
\* count of every term in the terms index is the number of entries of all
\* items whose slug is the slug of the term.
C22_EveryReferenceKept ==
  (config.program = "ssg.js" /\ (~config.paginated \/ Paged)) =>
    \A n \in DOMAIN written :
      written[n].tpl = "terms" =>
        LET occ == Occurrences(written[n].taxonomy)
            terms == written[n].terms
        IN  \A a \in DOMAIN terms :
              /\ terms[a].count =
                   Cardinality({k \in 1..Len(occ) : occ[k].slug = terms[a].slug})
              /\ \A i \in 1..Len(allItems) :
                   CountIn(TermItems(written[n].taxonomy, terms[a].name), i) =
                     Cardinality({k \in 1..Len(occ) :
                                    occ[k].slug = terms[a].slug /\ occ[k].item = i})

\* the item that lists retro, {name: 'Retro'} and retro stands three times
\* under retro, after the two references of the items before it
C22_Witness ==
  /\ config.program = "ssg.js" /\ pc = "done" /\ ~config.paginated
  /\ allItems = <<GameA, GameB, GameF>>
  /\ TermItems("genres", Str(Retro)) = <<1, 2, 3, 3, 3>>
  /\ \E n \in DOMAIN written :
       /\ written[n].tpl = "terms"
       /\ written[n].terms = << [name |-> Str(Action), slug |-> Action, count |-> 1],
                                [name |-> Str(Retro), slug |-> Retro, count |-> 5] >>

\* the taxonomies whose pass of the loop of processTaxonomies is over
Processed ==
  IF pc = "done" THEN config.taxonomies
  ELSE IF pc = "taxonomies" THEN SubSeq(config.taxonomies, 1, cursor)
  ELSE <<>>

\* the directory of a taxonomy under the base path
TaxonomyDirOf(taxonomy) == Join(BasePath(config), SlugifyAlone(Str(KeyChars(taxonomy))))

\* C23: every processed taxonomy has exactly one terms index, not
\* paginated, at index.html of the directory of the taxonomy; it lists one
\* entry for each term in the order the terms were first seen, and an entry
\* carries the display name of the term, its slug and, as count, the
\* length of the item list of the term.
C23_OneTermsIndex ==
  config.program = "ssg.js" =>
    /\ Len(FilesOf("terms")) = Len(Processed)
    /\ \A t \in 1..Len(Processed) :
         LET index == FilesOf("terms")[t]
             occ == Occurrences(Processed[t])
             terms == index.terms
         IN  /\ index.taxonomy = Processed[t]
             /\ index.path = Join(TaxonomyDirOf(Processed[t]), IndexHtml)
             /\ index.page = 0
             /\ Len(terms) = Cardinality({occ[k].slug : k \in DOMAIN occ})
             /\ \A a \in DOMAIN terms :
                  /\ \E k \in DOMAIN occ :
                       occ[k].label = terms[a].name /\ occ[k].slug = terms[a].slug
                  /\ (~config.paginated \/ Paged) =>
                       terms[a].count = Len(TermItems(Processed[t], terms[a].name))
                  /\ \A b \in DOMAIN terms :
                       a < b => FirstOf(occ, terms[a].slug) < FirstOf(occ, terms[b].slug)

\* two taxonomies under a base path: one terms index each, action before
\* retro under genres
C23_Witness ==
  /\ config.program = "ssg.js" /\ pc = "done"
  /\ config.taxonomies = <<"genres", "tags">> /\ config.path # <<>>
  /\ allItems = <<GameA, GameB, GameC>>
  /\ Len(FilesOf("terms")) = 2
  /\ FilesOf("terms")[1].terms =
       << [name |-> Str(Action), slug |-> Action, count |-> 2],
          [name |-> Str(Retro), slug |-> Retro, count |-> 3] >>
  /\ FilesOf("terms")[2].terms = << [name |-> Str(Action), slug |-> Action, count |-> 1] >>

---------------------------------------------------------------------------
(* Properties of a run of the first program of src/unnamed/part_003.       *)

\* the objects handed to the term pages
Copies == Flatten([n \in 1..Len(written) |-> written[n].copies])

---------------------------------------------------------------------------
(* Properties of renderTemplate on values that hold expressions.           *)

\* C25: text that comes into the output from a value of the context is
\* never read as template syntax: when the value of a field holds the
\* characters of an expression such as {{x}}, the output holds them as they
\* are and never the value of x, for a plain substitution and for a value
\* inserted in the body of a loop or of a conditional alike.
C25_ValuesNotInterpreted ==
  (rendered /\ data \in PayloadContexts) =>
    \A k \in 1..Len(output) : output[k] # Chr("S")

\* the part of C25 for a substitution outside any block: the value stands
\* in the output as it is
C25_PlainLiteral ==
  (rendered /\ data \in PayloadContexts /\ pieces[2] = NameVar) =>
    output = pieces[1] \o GetProp(data, "name").s \o pieces[3]

\* the route of the directory a page is written in: "/", the path of the
\* directory from the output directory, "/"
RouteOfDir(outputPath) == <<"/">> \o ParentOf(outputPath) \o <<"/">>

\* the path the page of the item at position i was written to
SinglePath(i) ==
  (CHOOSE f \in {written[n] : n \in DOMAIN written} :
     f.tpl = "single" /\ f.items = <<i>>).path

\* every url handed to a template is the route of the page it stands for
UrlsAreRoutes ==
  \A n \in DOMAIN written :
    /\ written[n].tpl = "taxonomy" =>
         \A k \in 1..Len(written[n].items) :
           GetProp(written[n].copies[k], "url")
             = Str(RouteOfDir(SinglePath(written[n].items[k])))
    /\ written[n].tpl = "terms" =>
         \A a \in 1..Len(written[n].terms) :
           \A m \in DOMAIN written :
             (written[m].tpl = "taxonomy" /\ written[m].page \in {0, 1}
                /\ written[m].taxonomy = written[n].taxonomy
                /\ written[m].term = written[n].terms[a].name) =>
               written[n].terms[a].url = RouteOfDir(written[m].path)

\* C26: the url of every item in the listing of a term is the route of the
\* directory the page of that item is written in, "/" + the path from the
\* output directory + "/", when config.path is set and when it is not; the
\* url of an entry of the terms index is so the route of the directory of
\* page 1 of the term.
C26_UrlIsRoute ==
  config.program = "part_003" => UrlsAreRoutes

\* the part of C26 for a run with config.path
C26_RouteUnderPath ==
  (config.program = "part_003" /\ config.path # <<>>) => UrlsAreRoutes

\* the slugs of the items of the run differ pairwise
DistinctItemSlugs ==
  \A i, j \in 1..Len(allItems) :
    i # j => P3ItemSlug(allItems[i]) # P3ItemSlug(allItems[j])

\* C27: in a run whose items have pairwise distinct slugs no two pages,
\* item pages, list pages, term pages, terms indexes and the 404 page, are
\* written to one path, so that no write replaces a page written before it
\* in the run; so also when the slug of an item is the slug of a taxonomy,
\* "index" or a page name such as "page-2".
C27_NoPageOverwritten ==
  (config.program \in {"ssg.js", "part_003"} /\ DistinctItemSlugs) =>
    \A m, n \in DOMAIN written : m # n => written[m].path # written[n].path

\* the page of an item lies in the directory named by a normalized slug
\* directly under the base path
InOwnDirectory(f) ==
  LET segment == P3ItemSlug(allItems[f.items[1]])
  IN  /\ \A k \in 1..Len(segment) : IsSlugChar(segment[k])
      /\ Len(segment) >= MinSlugLen /\ Len(segment) <= MaxSlugLen
      /\ f.path = Join(Join(P3BasePath(config), segment), IndexHtml)

\* C28: the identifier that names the page of an item in the output path
\* is a normalized slug, of lowercase letters, digits, underscores and
\* hyphens and of 2 to 30 characters, also when the item brings a slug
\* field of its own; so every item page is written inside the base
\* directory of the run.
C28_ItemSegmentNormalized ==
  config.program = "part_003" =>
    \A n \in DOMAIN written : written[n].tpl = "single" => InOwnDirectory(written[n])

\* the part of C28 for the items that bring no slug of their own
C28_TitleSegmentNormalized ==
  config.program = "part_003" =>
    \A n \in DOMAIN written :
      (written[n].tpl = "single"
         /\ GetProp(allItems[written[n].items[1]], "slug") = Undefined) =>
        InOwnDirectory(written[n])

---------------------------------------------------------------------------
(* Properties of the term pages of src/ssg.js.                             *)

\* the terms indexes agree with the term pages written
TermPagesMatchIndex ==
  \A n \in DOMAIN written :
    written[n].tpl = "terms" =>
      LET taxonomy == written[n].taxonomy
          terms == written[n].terms
      IN  /\ \A a \in DOMAIN terms :
               /\ \E m \in DOMAIN written :
                    /\ written[m].tpl = "taxonomy" /\ written[m].taxonomy = taxonomy
                    /\ written[m].term = terms[a].name /\ written[m].page \in {0, 1}
                    /\ written[m].path =
                         Join(TaxonomyDirOf(taxonomy), Join(terms[a].slug, IndexHtml))
               /\ Len(TermItems(taxonomy, terms[a].name)) = terms[a].count
          /\ \A m \in DOMAIN written :
               (written[m].tpl = "taxonomy" /\ written[m].taxonomy = taxonomy) =>
                 \E a \in DOMAIN terms : terms[a].name = written[m].term

\* C29: for every taxonomy and every configuration, pagination off or on
\* with any itemsPerPage, every term of the terms index has its page 1 at
\* <taxonomyDir>/<termSlug>/index.html, every term page written belongs to
\* a term of the index, and the numbers of items of the pages of a term add
\* up to the count the index shows for it.
C29_IndexMatchesTermPages ==
  config.program = "ssg.js" => TermPagesMatchIndex

\* the part of C29 for runs without pagination or with an itemsPerPage of
\* at least 1
C29_MatchWhenValid ==
  (config.program = "ssg.js" /\ (~config.paginated \/ Paged)) => TermPagesMatchIndex

---------------------------------------------------------------------------
(* Termination of the uniqueness loop of slugify.                          *)

\* the string the loop looks up in its pass n: the candidate, then the
\* suffixed forms for N = 2, 3, ...
Tried(c, n) == IF n = 1 THEN c ELSE Suffixed(c, n)

\* C30: slugify ends for every label and every finite registry: the
\* strings tried for successive N differ pairwise, also once the base is
\* being cut, so that the loop comes to a string that is not registered
\* after at most |registry| + 1 passes.
C30_LoopEnds ==
  calls > 0 =>
    LET c == Candidate(label)
        most == Cardinality(before) + 1
    IN  /\ \A a, b \in 2..(most + 1) : a # b => Suffixed(c, a) # Suffixed(c, b)
        /\ \E n \in 1..(most + 1) :
             /\ result = Tried(c, n)
             /\ result \notin before
             /\ \A m \in 1..(n - 1) : Tried(c, m) \in before

\* a candidate of full length that is its own form -2: registered alone,
\* the loop takes two passes, one more than the registry holds
C30_Witness ==
  /\ calls > 0
  /\ label = Rep("a", 28) \o <<"-", "2">>
  /\ before = {label}
  /\ Suffixed(Candidate(label), 2) = label
  /\ result = Rep("a", 28) \o <<"-", "3">>

====
